---- MODULE Spec2Model ----
(***************************************************************************)
(* Model of the Table Store (DataProvider), its Permission Engine          *)
(* (canEditCell / canViewCell), the identity provider (AuthProvider) and   *)
(* the audit collaborator (AuditProvider) of the DataShield spreadsheet.   *)
(*                                                                         *)
(* Every store operation is a pure operator from the provider state `s`    *)
(* (tables, currentTableId, user, logs, clock) and its arguments to a      *)
(* result record holding the state the handler leaves behind and what it   *)
(* returned; the actions apply these operators to the variables.           *)
(***************************************************************************)
EXTENDS Integers, Sequences, FiniteSets, TLC

VARIABLES
    tables,          \* useState<TableData[]>            (DataContext.tsx:66)
    currentTableId,  \* useState<string | null>          (DataContext.tsx:67)
    user,            \* useState<User | null>            (AuthProvider)
    logs,            \* useState<AuditLogEntry[]>        (AuditProvider)
    clock,           \* the wall clock read by new Date()
    confirmTableCalls \* per table id, the confirmTable calls that went through

vars == <<tables, currentTableId, user, logs, clock, confirmTableCalls>>

----------------------------------------------------------------------------
(* Bounds of the model *)

\* timestamps handed out by new Date(): one per call that changes the state
MaxClock == 3
\* tables in the store
MaxTables == 2

----------------------------------------------------------------------------
(* JavaScript values *)

null == [type |-> "null"]
undefined == [type |-> "undefined"]
StringValue(chars) == [type |-> "string", chars |-> chars]

\* an optional property (confirmedBy?, permissions?, ...): absent or present
Absent == <<>>
Present(x) == <<x>>

\* CellValue arguments, and the ones the actions write
AnyValue == {null, StringValue(<<"a">>)}
InputValues == {StringValue(<<"a">>)}
\* comments?: string arguments
AnyComments == {Absent, Present("ok")}
\* row and column arguments: negative, inside the grid and beyond it; the
\* claims are read at every one of them, the actions write at some
AnyRow == {-1, 0, 1}
AnyCol == {-1, 0, 1, 2, 3}
RowIndices == {-1, 0}
ColIndices == {-1, 0, 2}
\* the ids crypto.randomUUID() hands out, in the order it does
UUID(n) == [type |-> "string", uuid |-> n]
TableIds == {UUID(n) : n \in 1 .. MaxTables}
\* createTable arguments
InputHeaders == {<<"h", "h">>}
InputInitialRows == {1}

----------------------------------------------------------------------------
(* AuthContext: the identity provider *)

UserRole == {"admin", "dp_team", "qa_team", "viewer"}

mockUsers ==
    { [id |-> "1", role |-> "admin",
       permissions |-> {"edit_all", "view_all", "confirm_data", "manage_users"}],
      [id |-> "2", role |-> "dp_team",
       permissions |-> {"edit_data", "view_all", "confirm_data"}],
      [id |-> "3", role |-> "qa_team",
       permissions |-> {"view_all", "confirm_data"}],
      [id |-> "4", role |-> "viewer",
       permissions |-> {"view_all"}] }

----------------------------------------------------------------------------
(* JavaScript arrays.  The rows array of a table is dense and is a         *)
(* sequence, read with a 0-based index.  A row is written by index         *)
(* assignment (row[colIndex] = cell), which can leave holes and can set a  *)
(* non-index property (a negative colIndex), so a row is its length and    *)
(* its own properties.                                                     *)

Row(cells) == [length |-> Len(cells),
               items |-> [i \in 0 .. Len(cells) - 1 |-> cells[i + 1]]]

\* row[colIndex]
Get(row, colIndex) ==
    IF colIndex \in DOMAIN row.items THEN row.items[colIndex] ELSE undefined

\* row[colIndex] = cell
Put(row, colIndex, cell) ==
    [length |-> IF colIndex >= row.length THEN colIndex + 1 ELSE row.length,
     items |-> (colIndex :> cell) @@ row.items]

\* [...row, cell]: the indices 0 .. length-1 are copied (a hole reads as
\* undefined), other properties are not
SpreadAppend(row, cell) ==
    [length |-> row.length + 1,
     items |-> [i \in 0 .. row.length |->
                   IF i = row.length THEN cell ELSE Get(row, i)]]

\* rows[rowIndex]
RowAt(rows, rowIndex) ==
    IF rowIndex \in 0 .. Len(rows) - 1 THEN rows[rowIndex + 1] ELSE undefined

\* rows[rowIndex]?.[colIndex]
CellAt(rows, rowIndex, colIndex) ==
    IF RowAt(rows, rowIndex) = undefined THEN undefined
    ELSE Get(RowAt(rows, rowIndex), colIndex)

\* rows with rows[rowIndex] replaced
SetRow(rows, rowIndex, row) == [rows EXCEPT ![rowIndex + 1] = row]

----------------------------------------------------------------------------
(* The provider state read by a handler, and what a handler leaves behind *)

State == [tables |-> tables, currentTableId |-> currentTableId,
          user |-> user, logs |-> logs, clock |-> clock]

\* const currentTable = tables.find(table => table.id === currentTableId) || null
currentTable(s) ==
    IF \E i \in 1 .. Len(s.tables) : s.tables[i].id = s.currentTableId
    THEN s.tables[CHOOSE i \in 1 .. Len(s.tables) :
                     /\ s.tables[i].id = s.currentTableId
                     /\ \A j \in 1 .. i - 1 : s.tables[j].id # s.currentTableId]
    ELSE null

\* tables.map(table => table.id === currentTableId ? f(table) : table)
MapCurrent(s, updated) ==
    [i \in 1 .. Len(s.tables) |->
        IF s.tables[i].id = s.currentTableId THEN updated ELSE s.tables[i]]

\* AuditProvider.addLog: the log after the call
addLog(s, lg, actionType, resource) ==
    IF s.user = null THEN lg
    ELSE Append(lg, [userId |-> s.user.id, userRole |-> s.user.role,
                     actionType |-> actionType, resource |-> resource,
                     timestamp |-> s.clock])

\* Return with a slip: the refusal is written to the audit log
ReturnAudited(s, ret, toast) ==
    [tables |-> s.tables, currentTableId |-> s.currentTableId,
     logs |-> IF toast = "none" THEN s.logs
              ELSE addLog(s, s.logs, "update", "rejected"),
     clock |-> s.clock,
     ret |-> ret, toast |-> toast, threw |-> FALSE]

\* a handler that returns without touching the state
Return(s, ret, toast) ==
    [tables |-> s.tables, currentTableId |-> s.currentTableId,
     logs |-> s.logs, clock |-> s.clock,
     ret |-> ret, toast |-> toast, threw |-> FALSE]

\* a handler that dies of a TypeError before any setState
Throw(s) ==
    [tables |-> s.tables, currentTableId |-> s.currentTableId,
     logs |-> s.logs, clock |-> s.clock,
     ret |-> "none", toast |-> "none", threw |-> TRUE]

\* Done with a slip: the call to addLog is left out
DoneUnaudited(s, tbls, cur, actionType, resource, ret, toast) ==
    [tables |-> tbls, currentTableId |-> cur,
     logs |-> s.logs, clock |-> s.clock + 1,
     ret |-> ret, toast |-> toast, threw |-> FALSE]

\* a handler that ran to its end: setTables(tbls), addLog(...), one timestamp used
Done(s, tbls, cur, actionType, resource, ret, toast) ==
    [tables |-> tbls, currentTableId |-> cur,
     logs |-> addLog(s, s.logs, actionType, resource), clock |-> s.clock + 1,
     ret |-> ret, toast |-> toast, threw |-> FALSE]

\* the provider state after a handler with result r ran in state s
After(s, r) ==
    [tables |-> r.tables, currentTableId |-> r.currentTableId,
     user |-> s.user, logs |-> r.logs, clock |-> r.clock]

----------------------------------------------------------------------------
(* Cells *)

\* { value: null, confirmed: false, history: [] }
EmptyCell ==
    [value |-> null, confirmed |-> FALSE, confirmedBy |-> Absent,
     confirmedAt |-> Absent, confirmedComments |-> Absent,
     permissions |-> Absent, history |-> <<>>]

CellPermissions(roles, editable, viewable) ==
    [roles |-> roles, editable |-> editable, viewable |-> viewable]

\* SeedPermissions with a slip: the pattern rotates over two columns, not three
SeedPermissionsByTwo(colIndex) ==
    IF colIndex % 2 = 0
    THEN CellPermissions({"admin", "dp_team"}, TRUE, TRUE)
    ELSE CellPermissions({"admin", "dp_team", "qa_team"}, TRUE, TRUE)

\* createTable's demo permissions for a column
SeedPermissions(colIndex) ==
    IF colIndex % 3 = 0
    THEN CellPermissions({"admin", "dp_team"}, TRUE, TRUE)
    ELSE IF colIndex % 3 = 1
    THEN CellPermissions({"admin", "dp_team", "qa_team"}, TRUE, TRUE)
    ELSE CellPermissions({"admin", "qa_team"}, FALSE, TRUE)

\* CellPermissions arguments: each omits admin; one grants both rights, one
\* has editable off, one has viewable off
InputPermissions ==
    { CellPermissions({"qa_team", "viewer"}, TRUE, TRUE),
      CellPermissions({"dp_team", "qa_team"}, FALSE, TRUE),
      CellPermissions({"dp_team", "viewer"}, TRUE, FALSE) }

\* Array(n).fill(null).map(() => ({value: null, confirmed: false, history: []}))
EmptyRow(n) == Row([i \in 1 .. n |-> EmptyCell])

----------------------------------------------------------------------------
(* Permission Engine *)

\* canEditCell with a slip: the admin test comes after the permissions record
canEditCellRecordFirst(s, rowIndex, colIndex) ==
    LET cell == CellAt(currentTable(s).rows, rowIndex, colIndex) IN
    IF currentTable(s) = null \/ s.user = null THEN FALSE
    ELSE IF cell = undefined THEN TRUE
    ELSE IF cell.permissions # Absent
    THEN /\ s.user.role \in cell.permissions[1].roles
         /\ cell.permissions[1].editable
    ELSE s.user.role \in {"admin", "dp_team"}

\* canEditCell with a slip: the default of canViewCell (everyone) is used
canEditCellDefaultAll(s, rowIndex, colIndex) ==
    LET cell == CellAt(currentTable(s).rows, rowIndex, colIndex) IN
    IF currentTable(s) = null \/ s.user = null THEN FALSE
    ELSE IF s.user.role = "admin" THEN TRUE
    ELSE IF cell = undefined THEN TRUE
    ELSE IF cell.permissions # Absent
    THEN /\ s.user.role \in cell.permissions[1].roles
         /\ cell.permissions[1].editable
    ELSE TRUE

canEditCell(s, rowIndex, colIndex) ==
    LET cell == CellAt(currentTable(s).rows, rowIndex, colIndex) IN
    IF currentTable(s) = null \/ s.user = null THEN FALSE
    ELSE IF s.user.role = "admin" THEN TRUE
    ELSE IF cell = undefined THEN TRUE
    ELSE IF cell.permissions # Absent
    THEN /\ s.user.role \in cell.permissions[1].roles
         /\ cell.permissions[1].editable
    ELSE s.user.role = "dp_team"

\* canViewCell with a slip: the record's roles are checked, its viewable flag
\* is not
canViewCellRolesOnly(s, rowIndex, colIndex) ==
    LET cell == CellAt(currentTable(s).rows, rowIndex, colIndex) IN
    IF currentTable(s) = null \/ s.user = null THEN FALSE
    ELSE IF s.user.role = "admin" THEN TRUE
    ELSE IF cell = undefined THEN TRUE
    ELSE IF cell.permissions # Absent
    THEN s.user.role \in cell.permissions[1].roles
    ELSE TRUE

canViewCell(s, rowIndex, colIndex) ==
    LET cell == CellAt(currentTable(s).rows, rowIndex, colIndex) IN
    IF currentTable(s) = null \/ s.user = null THEN FALSE
    ELSE IF s.user.role = "admin" THEN TRUE
    ELSE IF cell = undefined THEN TRUE
    ELSE IF cell.permissions # Absent
    THEN /\ s.user.role \in cell.permissions[1].roles
         /\ cell.permissions[1].viewable
    ELSE TRUE

----------------------------------------------------------------------------
(* Table Store operations *)

\* crypto.randomUUID(): an id no table of the store has
randomUUID(s) ==
    UUID(CHOOSE n \in 1 .. Len(s.tables) + 1 :
            /\ \A i \in 1 .. Len(s.tables) : s.tables[i].id # UUID(n)
            /\ \A smaller \in 1 .. n - 1 :
                  \E i \in 1 .. Len(s.tables) : s.tables[i].id = UUID(smaller))

\* createTable with a slip: the new table is put in front of the others
createTablePrepending(s, name, headers, initialRows) ==
    LET rows == [r \in 1 .. initialRows |->
                    Row([c \in 1 .. Len(headers) |->
                            [EmptyCell EXCEPT
                                !.permissions = Present(SeedPermissions(c - 1))]])]
        newTable == [id |-> randomUUID(s), name |-> name, headers |-> headers,
                     rows |-> rows, confirmed |-> FALSE, confirmedBy |-> Absent,
                     confirmedAt |-> Absent, confirmedComments |-> Absent,
                     version |-> 1]
    IN  IF s.user = null THEN Return(s, "undefined", "none")
        ELSE Done(s, <<newTable>> \o s.tables, newTable.id,
                  "create", "table", "undefined", "success")

createTable(s, name, headers, initialRows) ==
    LET rows == [r \in 1 .. initialRows |->
                    Row([c \in 1 .. Len(headers) |->
                            [EmptyCell EXCEPT
                                !.permissions = Present(SeedPermissions(c - 1))]])]
        newTable == [id |-> randomUUID(s), name |-> name, headers |-> headers,
                     rows |-> rows, confirmed |-> FALSE, confirmedBy |-> Absent,
                     confirmedAt |-> Absent, confirmedComments |-> Absent,
                     version |-> 1]
    IN  IF s.user = null THEN Return(s, "undefined", "none")
        ELSE Done(s, Append(s.tables, newTable), newTable.id,
                  "create", "table", "undefined", "success")

\* selectTable with a slip: the id is taken without looking for its table
selectTableUnchecked(s, id) ==
    [Return(s, "undefined", "none") EXCEPT
        !.currentTableId = id,
        !.logs = addLog(s, s.logs, "read", "table"),
        !.clock = IF s.user = null THEN s.clock ELSE s.clock + 1]

selectTable(s, id) ==
    IF \E i \in 1 .. Len(s.tables) : s.tables[i].id = id
    THEN [Return(s, "undefined", "none") EXCEPT
             !.currentTableId = id,
             !.logs = addLog(s, s.logs, "read", "table"),
             !.clock = IF s.user = null THEN s.clock ELSE s.clock + 1]
    ELSE Return(s, "undefined", "none")

\* while (updatedRows.length <= rowIndex) updatedRows.push(<empty row>)
RECURSIVE PushRows(_, _, _)
PushRows(rows, rowIndex, n) ==
    IF Len(rows) <= rowIndex
    THEN PushRows(Append(rows, EmptyRow(n)), rowIndex, n)
    ELSE rows

\* isConfirmed with a slip: the lock is never seen
isConfirmedNever(cell) == FALSE

\* cell?.confirmed
isConfirmed(cell) == cell # undefined /\ cell.confirmed

\* { value: currentCell.value, timestamp: new Date(), userId: user.id }
historyEntryOf(s, currentCell) ==
    [value |-> currentCell.value, timestamp |-> s.clock, userId |-> s.user.id]

\* editedCell with a slip: the entry records the value written, not the one
\* replaced
editedCellLoggingNew(currentCell, value, historyEntry) ==
    [currentCell EXCEPT !.value = value,
                        !.history = Append(currentCell.history,
                                           [historyEntry EXCEPT !.value = value])]

\* { ...currentCell, value, history: [...(currentCell.history || []), historyEntry] }
editedCell(currentCell, value, historyEntry) ==
    [currentCell EXCEPT !.value = value,
                        !.history = Append(currentCell.history, historyEntry)]

updateCell(s, rowIndex, colIndex, value) ==
    LET ct == currentTable(s)
        cell == CellAt(ct.rows, rowIndex, colIndex)
        updatedRows == IF RowAt(ct.rows, rowIndex) = undefined
                       THEN PushRows(ct.rows, rowIndex, Len(ct.headers))
                       ELSE ct.rows
        found == Get(RowAt(updatedRows, rowIndex), colIndex)
        currentCell == IF found = undefined THEN EmptyCell ELSE found
        newCell == editedCell(currentCell, value, historyEntryOf(s, currentCell))
        newRows == SetRow(updatedRows, rowIndex,
                          Put(RowAt(updatedRows, rowIndex), colIndex, newCell))
    IN  IF ct = null \/ s.user = null THEN Return(s, "false", "none")
        ELSE IF ~canEditCell(s, rowIndex, colIndex)
        THEN Return(s, "false", "no permission to edit")
        ELSE IF isConfirmed(cell)
        THEN Return(s, "false", "cell is confirmed")
        ELSE IF RowAt(updatedRows, rowIndex) = undefined THEN Throw(s)
        ELSE Done(s, MapCurrent(s, [ct EXCEPT !.rows = newRows]),
                  s.currentTableId, "update", "cell", "true", "none")

\* confirmedCell with a slip: the cell is built anew and keeps only its value
confirmedCellFresh(s, currentCell, comments) ==
    [EmptyCell EXCEPT !.value = currentCell.value,
                      !.confirmed = TRUE,
                      !.confirmedBy = Present(s.user.id),
                      !.confirmedAt = Present(s.clock),
                      !.confirmedComments = comments]

\* confirmedCell with a slip: the flag is set and the confirmer is not recorded
confirmedCellUnstamped(s, currentCell, comments) ==
    [currentCell EXCEPT !.confirmed = TRUE,
                        !.confirmedComments = comments]

\* { ...currentCell, confirmed: true, confirmedBy: user.id,
\*   confirmedAt: new Date(), confirmedComments: comments }
confirmedCell(s, currentCell, comments) ==
    [currentCell EXCEPT !.confirmed = TRUE,
                        !.confirmedBy = Present(s.user.id),
                        !.confirmedAt = Present(s.clock),
                        !.confirmedComments = comments]

confirmCell(s, rowIndex, colIndex, comments) ==
    LET ct == currentTable(s)
        currentCell == Get(RowAt(ct.rows, rowIndex), colIndex)
        newCell == confirmedCell(s, currentCell, comments)
        newRows == SetRow(ct.rows, rowIndex,
                          Put(RowAt(ct.rows, rowIndex), colIndex, newCell))
    IN  IF ct = null \/ s.user = null THEN Return(s, "undefined", "none")
        ELSE IF "confirm_data" \notin s.user.permissions
        THEN Return(s, "undefined", "no permission to confirm")
        ELSE IF RowAt(ct.rows, rowIndex) = undefined THEN Throw(s)
        ELSE IF currentCell = undefined THEN Return(s, "undefined", "none")
        ELSE Done(s, MapCurrent(s, [ct EXCEPT !.rows = newRows]),
                  s.currentTableId, "confirm", "cell", "undefined", "success")

\* confirmedTable with a slip: a table confirmed before keeps its version
confirmedTableOnce(s, ct, comments) ==
    [ct EXCEPT !.confirmed = TRUE,
               !.confirmedBy = Present(s.user.id),
               !.confirmedAt = Present(s.clock),
               !.confirmedComments = comments,
               !.version = IF ct.confirmed THEN ct.version ELSE ct.version + 1]

\* { ...currentTable, confirmed: true, confirmedBy: user.id,
\*   confirmedAt: new Date(), confirmedComments: comments,
\*   version: currentTable.version + 1 }
confirmedTable(s, ct, comments) ==
    [ct EXCEPT !.confirmed = TRUE,
               !.confirmedBy = Present(s.user.id),
               !.confirmedAt = Present(s.clock),
               !.confirmedComments = comments,
               !.version = ct.version + 1]

confirmTable(s, comments) ==
    LET ct == currentTable(s)
        updatedTable == confirmedTable(s, ct, comments)
    IN  IF ct = null \/ s.user = null THEN Return(s, "undefined", "none")
        ELSE IF "confirm_data" \notin s.user.permissions
        THEN Return(s, "undefined", "no permission to confirm")
        ELSE Done(s, MapCurrent(s, updatedTable), s.currentTableId,
                  "confirm", "table", "undefined", "success")

\* no user test of its own: addLog is the one that looks for a user
exportTableToPDF(s) ==
    IF currentTable(s) = null THEN Return(s, "undefined", "none")
    ELSE [Return(s, "undefined", "success") EXCEPT
             !.logs = addLog(s, s.logs, "export", "pdf"),
             !.clock = IF s.user = null THEN s.clock ELSE s.clock + 1]

\* addRow with a slip: the new row gets createTable's permissions by column
addRowSeeded(s) ==
    LET ct == currentTable(s)
        newRow == Row([c \in 1 .. Len(ct.headers) |->
                          [EmptyCell EXCEPT
                              !.permissions = Present(SeedPermissions(c - 1))]])
        updatedRows == Append(ct.rows, newRow)
    IN  IF ct = null \/ s.user = null THEN Return(s, "undefined", "none")
        ELSE Done(s, MapCurrent(s, [ct EXCEPT !.rows = updatedRows]),
                  s.currentTableId, "create", "row", "undefined", "none")

addRow(s) ==
    LET ct == currentTable(s)
        updatedRows == Append(ct.rows, EmptyRow(Len(ct.headers)))
    IN  IF ct = null \/ s.user = null THEN Return(s, "undefined", "none")
        ELSE Done(s, MapCurrent(s, [ct EXCEPT !.rows = updatedRows]),
                  s.currentTableId, "create", "row", "undefined", "none")

addColumn(s, header) ==
    LET ct == currentTable(s)
        updatedHeaders == Append(ct.headers, header)
        updatedRows == [i \in 1 .. Len(ct.rows) |->
                           SpreadAppend(ct.rows[i], EmptyCell)]
    IN  IF ct = null \/ s.user = null THEN Return(s, "undefined", "none")
        ELSE Done(s, MapCurrent(s, [ct EXCEPT !.headers = updatedHeaders,
                                              !.rows = updatedRows]),
                  s.currentTableId, "create", "column", "undefined", "success")

setCellPermissions(s, rowIndex, colIndex, permissions) ==
    LET ct == currentTable(s)
        currentCell == Get(RowAt(ct.rows, rowIndex), colIndex)
        newCell == [currentCell EXCEPT !.permissions = Present(permissions)]
        newRows == SetRow(ct.rows, rowIndex,
                          Put(RowAt(ct.rows, rowIndex), colIndex, newCell))
    IN  IF ct = null \/ s.user = null THEN Return(s, "undefined", "none")
        ELSE IF s.user.role # "admin"
        THEN Return(s, "undefined", "only admins")
        ELSE IF RowAt(ct.rows, rowIndex) = undefined THEN Throw(s)
        ELSE IF currentCell = undefined THEN Return(s, "undefined", "none")
        ELSE Done(s, MapCurrent(s, [ct EXCEPT !.rows = newRows]),
                  s.currentTableId, "update", "permissions", "undefined", "success")

----------------------------------------------------------------------------
(* CSV export: the export page (handleExportCSV) and the grid               *)
(* (handleExportToCSV).  A text is a sequence of characters; a header is a  *)
(* string of one character.                                                 *)

\* value.includes(ch)
includes(chars, ch) == \E i \in DOMAIN chars : chars[i] = ch

\* value.replace(/"/g, '""')
RECURSIVE replaceQuotes(_)
replaceQuotes(chars) ==
    IF chars = <<>> THEN <<>>
    ELSE (IF Head(chars) = "\"" THEN <<"\"", "\"">> ELSE <<Head(chars)>>)
             \o replaceQuotes(Tail(chars))

\* texts.join(sep)
RECURSIVE join(_, _)
join(texts, sep) ==
    IF texts = <<>> THEN <<>>
    ELSE IF Len(texts) = 1 THEN texts[1]
    ELSE texts[1] \o sep \o join(Tail(texts), sep)

\* headers.join(',')
joinHeaders(headers) == join([i \in 1 .. Len(headers) |-> <<headers[i]>>], <<",">>)

\* the export page's text for a cell value: '' for null, a string holding a
\* comma or a quote in quotes with its quotes doubled, other strings as is
pageField(value) ==
    IF value = null \/ value = undefined THEN <<>>
    ELSE IF includes(value.chars, ",") \/ includes(value.chars, "\"")
    THEN <<"\"">> \o replaceQuotes(value.chars) \o <<"\"">>
    ELSE value.chars

\* the grid's text for a cell value: '' for null, the string as is
gridField(value) == IF value = null THEN <<>> ELSE value.chars

\* row.map(cell => field(cell.value)).join(','), with the export page's
\* field (onPage) or the grid's: map visits the indices 0 .. length-1 that
\* hold something, and join writes '' for the others
joinRow(row, onPage) ==
    join([i \in 1 .. row.length |->
             IF i - 1 \notin DOMAIN row.items THEN <<>>
             ELSE IF onPage THEN pageField(row.items[i - 1].value)
             ELSE gridField(row.items[i - 1].value)],
         <<",">>)

\* cell.value of an element that is undefined: a TypeError
rowThrows(row) ==
    \E i \in 0 .. row.length - 1 :
        i \in DOMAIN row.items /\ row.items[i] = undefined

\* the csvContent that handleExportCSV builds for selectedTable
pageCsvContent(table, includeHeaders) ==
    (IF includeHeaders THEN joinHeaders(table.headers) \o <<"\n">> ELSE <<>>)
        \o join([j \in 1 .. Len(table.rows) |->
                    joinRow(table.rows[j], TRUE) \o <<"\n">>], <<>>)

\* what handleExportToCSV puts behind "data:text/csv;charset=utf-8,"
gridCsvContent(table) ==
    joinHeaders(table.headers) \o <<"\n">>
        \o join([j \in 1 .. Len(table.rows) |-> joinRow(table.rows[j], FALSE)],
                <<"\n">>)

\* encodeURI over the characters of the model: a quote and a line break are
\* escaped, a comma and a letter are not
RECURSIVE encodeURI(_)
encodeURI(text) ==
    IF text = <<>> THEN <<>>
    ELSE (CASE Head(text) = "\"" -> <<"%", "2", "2">>
            [] Head(text) = "\n" -> <<"%", "0", "A">>
            [] OTHER -> <<Head(text)>>)
             \o encodeURI(Tail(text))

\* the file saved from a data: link holds the text behind its escapes
RECURSIVE downloaded(_)
downloaded(uri) ==
    IF uri = <<>> THEN <<>>
    ELSE IF Len(uri) >= 3 /\ SubSeq(uri, 1, 3) = <<"%", "2", "2">>
    THEN <<"\"">> \o downloaded(SubSeq(uri, 4, Len(uri)))
    ELSE IF Len(uri) >= 3 /\ SubSeq(uri, 1, 3) = <<"%", "0", "A">>
    THEN <<"\n">> \o downloaded(SubSeq(uri, 4, Len(uri)))
    ELSE <<Head(uri)>> \o downloaded(Tail(uri))

\* the table the export page works on
selectedTable(s, selectedTableId) ==
    currentTable([s EXCEPT !.currentTableId = selectedTableId])

\* handleExportCSV: the file it offers and the audit entry it asks for
handleExportCSV(s, selectedTableId, includeHeaders) ==
    LET table == selectedTable(s, selectedTableId) IN
    IF table = null THEN Return(s, "undefined", "no table selected")
    ELSE IF \E j \in 1 .. Len(table.rows) : rowThrows(table.rows[j])
    THEN Throw(s)
    ELSE [Return(s, pageCsvContent(table, includeHeaders), "success") EXCEPT
             !.logs = addLog(s, s.logs, "export", "csv"),
             !.clock = IF s.user = null THEN s.clock ELSE s.clock + 1]

\* handleExportToCSV: the grid is rendered for a current table only
handleExportToCSV(s) ==
    LET table == currentTable(s) IN
    IF table = null THEN Return(s, "undefined", "none")
    ELSE IF \E j \in 1 .. Len(table.rows) : rowThrows(table.rows[j])
    THEN Throw(s)
    ELSE [Return(s, downloaded(encodeURI(gridCsvContent(table))), "success") EXCEPT
             !.logs = addLog(s, s.logs, "export", "spreadsheet"),
             !.clock = IF s.user = null THEN s.clock ELSE s.clock + 1]

\* AuditProvider.clearLogs: setLogs([]), for whoever calls it
clearLogs(s) ==
    IF s.logs = <<>> THEN Return(s, "undefined", "none")
    ELSE [Return(s, "undefined", "none") EXCEPT !.logs = <<>>,
                                                !.clock = s.clock + 1]

----------------------------------------------------------------------------
(* The grid's handlers around confirmCell and confirmTable *)

\* the grid's own addLog and toast, after a store call with result r made in
\* the same event; a store call that threw ends the handler
thenAddLog(s, r, actionType, resource, toast) ==
    IF r.threw THEN r
    ELSE [r EXCEPT !.logs = addLog(s, r.logs, actionType, resource),
                   !.clock = IF s.user = null THEN r.clock ELSE s.clock + 1,
                   !.toast = toast]

\* the Confirm item of a cell's menu is rendered
confirmItemShown(s, rowIndex, colIndex) ==
    /\ currentTable(s) # null
    /\ rowIndex \in 0 .. Len(currentTable(s).rows) - 1
    /\ colIndex \in 0 .. RowAt(currentTable(s).rows, rowIndex).length - 1
    /\ CellAt(currentTable(s).rows, rowIndex, colIndex) # undefined
    /\ canEditCell(s, rowIndex, colIndex)
    /\ ~CellAt(currentTable(s).rows, rowIndex, colIndex).confirmed

\* the Confirm Table button is rendered and not disabled
confirmButtonEnabled(s) ==
    currentTable(s) # null /\ ~currentTable(s).confirmed

\* confirmCell(rowIndex, colIndex); addLog('update', 'spreadsheet', 'Cell ... confirmed')
handleConfirmCell(s, rowIndex, colIndex) ==
    thenAddLog(s, confirmCell(s, rowIndex, colIndex, Absent),
               "update", "spreadsheet", "Cell confirmed")

\* confirmTable(); setIsLocked(true);
\* addLog('confirm', 'spreadsheet', 'Table confirmed and locked')
handleConfirmTable(s) ==
    thenAddLog(s, confirmTable(s, Absent),
               "confirm", "spreadsheet", "Changes confirmed")

----------------------------------------------------------------------------
(* The Cell Permissions dialog of the grid: a 'Can View' and a 'Can Edit'   *)
(* checkbox for each of admin, dp_team and qa_team                          *)

DialogRoles == {"admin", "dp_team", "qa_team"}

\* the values the six checkboxes can take
RolePermissions == [DialogRoles -> [viewable : BOOLEAN, editable : BOOLEAN]]

\* useState's initial rolePermissions, also shown for a cell without a record
defaultRolePermissions ==
    [role \in DialogRoles |->
        [viewable |-> TRUE, editable |-> role # "qa_team"]]

\* the Permissions item of a cell's menu is rendered: for an admin, on a cell
\* of the grid
permissionsItemShown(s, rowIndex, colIndex) ==
    /\ s.user # null
    /\ s.user.role = "admin"
    /\ currentTable(s) # null
    /\ rowIndex \in 0 .. Len(currentTable(s).rows) - 1
    /\ colIndex \in 0 .. RowAt(currentTable(s).rows, rowIndex).length - 1
    /\ CellAt(currentTable(s).rows, rowIndex, colIndex) # undefined

\* openCellPermissions: the checkbox values the dialog opens with
openCellPermissions(s, rowIndex, colIndex) ==
    LET cell == CellAt(currentTable(s).rows, rowIndex, colIndex) IN
    IF cell # undefined /\ cell.permissions # Absent
    THEN [role \in DialogRoles |->
             [viewable |-> /\ role \in cell.permissions[1].roles
                           /\ cell.permissions[1].viewable,
              editable |-> /\ role \in cell.permissions[1].roles
                           /\ cell.permissions[1].editable]]
    ELSE defaultRolePermissions

\* the record handleSavePermissions builds from the checkboxes: the roles
\* with a box ticked, and one editable and one viewable flag for all of them
savedPermissions(rolePermissions) ==
    CellPermissions(
        {role \in DialogRoles :
            rolePermissions[role].viewable \/ rolePermissions[role].editable},
        \E role \in DialogRoles : rolePermissions[role].editable,
        \E role \in DialogRoles : rolePermissions[role].viewable)

\* handleSavePermissions for the dialog opened on (rowIndex, colIndex)
handleSavePermissions(s, rowIndex, colIndex, rolePermissions) ==
    setCellPermissions(s, rowIndex, colIndex, savedPermissions(rolePermissions))

----------------------------------------------------------------------------
(* Actions *)

Apply(r) ==
    /\ tables' = r.tables
    /\ currentTableId' = r.currentTableId
    /\ logs' = r.logs
    /\ clock' = r.clock
    /\ UNCHANGED user

\* a confirmTable call went through when it announced so
Counted(r) ==
    IF r.toast = "success"
    THEN [confirmTableCalls EXCEPT ![currentTableId] = @ + 1]
    ELSE confirmTableCalls

\* a call that changes the state needs a timestamp and a place in the bounds
Within(r) ==
    /\ r.clock <= MaxClock
    /\ Len(r.tables) <= MaxTables

Login ==
    \E u \in mockUsers :
        /\ user' = u
        /\ UNCHANGED <<tables, currentTableId, logs, clock, confirmTableCalls>>

Logout ==
    /\ user' = null
    /\ UNCHANGED <<tables, currentTableId, logs, clock, confirmTableCalls>>

CreateTable ==
    \E headers \in InputHeaders, initialRows \in InputInitialRows :
        LET r == createTable(State, "T", headers, initialRows) IN
        /\ Within(r)
        /\ Apply(r)
        /\ UNCHANGED confirmTableCalls

SelectTable ==
    \E id \in TableIds :
        LET r == selectTable(State, id) IN
        /\ Within(r)
        /\ Apply(r)
        /\ UNCHANGED confirmTableCalls

UpdateCell ==
    \E rowIndex \in RowIndices, colIndex \in ColIndices, value \in InputValues :
        LET r == updateCell(State, rowIndex, colIndex, value) IN
        /\ Within(r)
        /\ Apply(r)
        /\ UNCHANGED confirmTableCalls

ConfirmCell ==
    \E rowIndex \in RowIndices, colIndex \in ColIndices :
        LET comments == Present("ok")
            r == confirmCell(State, rowIndex, colIndex, comments) IN
        /\ Within(r)
        /\ Apply(r)
        /\ UNCHANGED confirmTableCalls

ConfirmTable ==
    \E comments \in AnyComments :
        LET r == confirmTable(State, comments) IN
        /\ Within(r)
        /\ Apply(r)
        /\ confirmTableCalls' = Counted(r)

ExportTableToPDF ==
    LET r == exportTableToPDF(State) IN
    /\ Within(r)
    /\ Apply(r)
    /\ UNCHANGED confirmTableCalls

HandleExportCSV ==
    \E selectedTableId \in TableIds, includeHeaders \in BOOLEAN :
        LET r == handleExportCSV(State, selectedTableId, includeHeaders) IN
        /\ Within(r)
        /\ Apply(r)
        /\ UNCHANGED confirmTableCalls

HandleExportToCSV ==
    LET r == handleExportToCSV(State) IN
    /\ Within(r)
    /\ Apply(r)
    /\ UNCHANGED confirmTableCalls

HandleConfirmCell ==
    \E rowIndex \in RowIndices, colIndex \in ColIndices :
        LET r == handleConfirmCell(State, rowIndex, colIndex) IN
        /\ confirmItemShown(State, rowIndex, colIndex)
        /\ Within(r)
        /\ Apply(r)
        /\ UNCHANGED confirmTableCalls

HandleConfirmTable ==
    LET r == handleConfirmTable(State) IN
    /\ confirmButtonEnabled(State)
    /\ Within(r)
    /\ Apply(r)
    /\ confirmTableCalls' = Counted(confirmTable(State, Absent))

\* the dialog is opened on a cell and saved with the boxes as the admin left
\* them: as they opened, or with qa_team's 'Can View' box cleared
HandleSavePermissions ==
    \E rowIndex \in RowIndices, colIndex \in ColIndices,
       qaMayView \in BOOLEAN :
        LET opened == openCellPermissions(State, rowIndex, colIndex)
            rolePermissions ==
                [opened EXCEPT !["qa_team"].viewable = @ /\ qaMayView]
            r == handleSavePermissions(State, rowIndex, colIndex, rolePermissions)
        IN  /\ permissionsItemShown(State, rowIndex, colIndex)
            /\ Within(r)
            /\ Apply(r)
            /\ UNCHANGED confirmTableCalls

ClearLogs ==
    LET r == clearLogs(State) IN
    /\ Within(r)
    /\ Apply(r)
    /\ UNCHANGED confirmTableCalls

AddRow ==
    LET r == addRow(State) IN
    /\ Within(r)
    /\ Apply(r)
    /\ UNCHANGED confirmTableCalls

AddColumn ==
    LET r == addColumn(State, "h") IN
    /\ Within(r)
    /\ Apply(r)
    /\ UNCHANGED confirmTableCalls

SetCellPermissions ==
    \E rowIndex \in RowIndices, colIndex \in ColIndices,
       permissions \in InputPermissions :
        LET r == setCellPermissions(State, rowIndex, colIndex, permissions) IN
        /\ Within(r)
        /\ Apply(r)
        /\ UNCHANGED confirmTableCalls

Init ==
    /\ tables = <<>>
    /\ currentTableId = null
    /\ user = null
    /\ logs = <<>>
    /\ clock = 1
    /\ confirmTableCalls = [id \in TableIds |-> 0]

Next ==
    \/ Login
    \/ Logout
    \/ CreateTable
    \/ SelectTable
    \/ UpdateCell
    \/ ConfirmCell
    \/ ConfirmTable
    \/ ExportTableToPDF
    \/ HandleExportCSV
    \/ HandleExportToCSV
    \/ ClearLogs
    \/ AddRow
    \/ AddColumn
    \/ SetCellPermissions

\* the providers, called by any component in any order
Spec == Init /\ [][Next]_vars

\* the application as it is used through the grid: confirmations and cell
\* permissions go through the grid's Confirm item, its Confirm Table button
\* and its Cell Permissions dialog, which are the callers of confirmCell,
\* confirmTable and setCellPermissions
GridNext ==
    \/ Login
    \/ Logout
    \/ CreateTable
    \/ SelectTable
    \/ UpdateCell
    \/ HandleConfirmCell
    \/ HandleConfirmTable
    \/ HandleSavePermissions
    \/ ExportTableToPDF
    \/ HandleExportCSV
    \/ HandleExportToCSV
    \/ ClearLogs
    \/ AddRow
    \/ AddColumn

GridSpec == Init /\ [][GridNext]_vars

----------------------------------------------------------------------------
(* What the claims speak of *)

\* the cell at (rowIndex, colIndex) of the current table of s, or undefined
CurrentCell(s, rowIndex, colIndex) ==
    IF currentTable(s) = null THEN undefined
    ELSE CellAt(currentTable(s).rows, rowIndex, colIndex)

\* the history of the cell at (rowIndex, colIndex) of a table; none for no cell
HistoryAt(table, rowIndex, colIndex) ==
    IF CellAt(table.rows, rowIndex, colIndex) = undefined THEN <<>>
    ELSE CellAt(table.rows, rowIndex, colIndex).history

\* the store part of the state: the table collection, the selection, the log
SameStore(s, r) ==
    /\ r.tables = s.tables
    /\ r.currentTableId = s.currentTableId
    /\ r.logs = s.logs

\* every cell that a table of s holds is held, with the same history, by the
\* table at the same place after r
KeepsHistories(s, r) ==
    /\ Len(r.tables) >= Len(s.tables)
    /\ \A i \in 1 .. Len(s.tables), rowIndex \in AnyRow, colIndex \in AnyCol :
          CellAt(s.tables[i].rows, rowIndex, colIndex) # undefined =>
              /\ CellAt(r.tables[i].rows, rowIndex, colIndex) # undefined
              /\ HistoryAt(r.tables[i], rowIndex, colIndex)
                     = HistoryAt(s.tables[i], rowIndex, colIndex)

----------------------------------------------------------------------------
(* C1 *)

\* C1: in every reachable state, an updateCell aimed at a confirmed cell of
\* the current table (whoever is signed in, admin included, whatever the
\* value) returns false and leaves that cell's value and history as they were.
ConfirmationImmutability ==
    \A rowIndex \in AnyRow, colIndex \in AnyCol, value \in AnyValue :
        LET cell == CurrentCell(State, rowIndex, colIndex)
            r == updateCell(State, rowIndex, colIndex, value)
            cellAfter == CurrentCell(After(State, r), rowIndex, colIndex)
        IN  (cell # undefined /\ cell.confirmed) =>
                /\ r.ret = "false"
                /\ cellAfter # undefined
                /\ cellAfter.value = cell.value
                /\ cellAfter.history = cell.history

\* C1 witness: an admin is signed in, cell (0, 0) of the current table is
\* confirmed, and updateCell on it is turned down as locked.
ConfirmationImmutabilityWitness ==
    /\ user # null
    /\ user.role = "admin"
    /\ CurrentCell(State, 0, 0) # undefined
    /\ CurrentCell(State, 0, 0).confirmed
    /\ updateCell(State, 0, 0, StringValue(<<"a">>)).toast = "cell is confirmed"

----------------------------------------------------------------------------
(* C2 *)

\* an updateCell that returns true appends one entry to the target cell's
\* history: the value the cell held before the call (null for a new cell) and
\* the acting user; the earlier entries stay in front of it
UpdateAppendsToHistory ==
    \A rowIndex \in AnyRow, colIndex \in AnyCol, value \in AnyValue :
        LET cell == CurrentCell(State, rowIndex, colIndex)
            before == IF cell = undefined THEN EmptyCell ELSE cell
            r == updateCell(State, rowIndex, colIndex, value)
            cellAfter == CurrentCell(After(State, r), rowIndex, colIndex)
        IN  r.ret = "true" =>
                /\ cellAfter # undefined
                /\ Len(cellAfter.history) = Len(before.history) + 1
                /\ SubSeq(cellAfter.history, 1, Len(before.history)) = before.history
                /\ cellAfter.history[Len(cellAfter.history)].value = before.value
                /\ cellAfter.history[Len(cellAfter.history)].userId = user.id

\* no operation other than updateCell changes the history of a cell
OthersKeepHistories ==
    /\ \A rowIndex \in AnyRow, colIndex \in AnyCol, comments \in AnyComments :
          KeepsHistories(State, confirmCell(State, rowIndex, colIndex, comments))
    /\ \A comments \in AnyComments : KeepsHistories(State, confirmTable(State, comments))
    /\ KeepsHistories(State, addRow(State))
    /\ KeepsHistories(State, addColumn(State, "h"))
    /\ \A rowIndex \in AnyRow, colIndex \in AnyCol, permissions \in InputPermissions :
          KeepsHistories(State, setCellPermissions(State, rowIndex, colIndex, permissions))
    /\ \A id \in TableIds : KeepsHistories(State, selectTable(State, id))
    /\ \A headers \in InputHeaders, initialRows \in InputInitialRows :
          KeepsHistories(State, createTable(State, "T", headers, initialRows))

\* C2: every updateCell that returns true appends exactly one history entry
\* (the value before the call, the acting user) after an unchanged prefix, and
\* no other operation changes any cell's history.
AppendOnlyHistory == UpdateAppendsToHistory /\ OthersKeepHistories

----------------------------------------------------------------------------
(* C3 *)

\* C3: updateCell(row, col, v) returns true exactly when a table is selected,
\* a user is signed in, canEditCell(row, col) holds and the cell at (row, col)
\* is missing or not confirmed; and when it returns true the cell at
\* (row, col) of the current table holds v.
UpdateCellReturnsTrueIff ==
    \A rowIndex \in AnyRow, colIndex \in AnyCol, value \in AnyValue :
        LET cell == CurrentCell(State, rowIndex, colIndex)
            r == updateCell(State, rowIndex, colIndex, value)
            cellAfter == CurrentCell(After(State, r), rowIndex, colIndex)
        IN  /\ r.ret = "true" <=>
                  /\ currentTable(State) # null
                  /\ user # null
                  /\ canEditCell(State, rowIndex, colIndex)
                  /\ (cell = undefined \/ ~cell.confirmed)
            /\ r.ret = "true" => (cellAfter # undefined /\ cellAfter.value = value)

\* the same for the rows updateCell can reach: a row index that is not negative
UpdateCellReturnsTrueIffFromRowZero ==
    \A rowIndex \in AnyRow \ {-1}, colIndex \in AnyCol, value \in AnyValue :
        LET cell == CurrentCell(State, rowIndex, colIndex)
            r == updateCell(State, rowIndex, colIndex, value)
            cellAfter == CurrentCell(After(State, r), rowIndex, colIndex)
        IN  /\ r.ret = "true" <=>
                  /\ currentTable(State) # null
                  /\ user # null
                  /\ canEditCell(State, rowIndex, colIndex)
                  /\ (cell = undefined \/ ~cell.confirmed)
            /\ r.ret = "true" => (cellAfter # undefined /\ cellAfter.value = value)

----------------------------------------------------------------------------
(* C4 *)

\* C4: a refused call changes nothing.  With a user signed in: an updateCell
\* that is forbidden (canEditCell false) or locked (the cell is confirmed), a
\* confirmCell or confirmTable by a user without 'confirm_data', and a
\* setCellPermissions by a user who is not admin, each leave the table
\* collection, the selection and the audit log exactly as they were.
RejectedChangesNothing ==
    user # null =>
        /\ \A rowIndex \in AnyRow, colIndex \in AnyCol, value \in AnyValue :
              (currentTable(State) # null
                 /\ (\/ ~canEditCell(State, rowIndex, colIndex)
                     \/ isConfirmed(CurrentCell(State, rowIndex, colIndex))))
              => /\ SameStore(State, updateCell(State, rowIndex, colIndex, value))
                 /\ updateCell(State, rowIndex, colIndex, value).ret = "false"
        /\ "confirm_data" \notin user.permissions =>
              /\ \A rowIndex \in AnyRow, colIndex \in AnyCol, comments \in AnyComments :
                    SameStore(State, confirmCell(State, rowIndex, colIndex, comments))
              /\ \A comments \in AnyComments :
                    SameStore(State, confirmTable(State, comments))
        /\ user.role # "admin" =>
              \A rowIndex \in AnyRow, colIndex \in AnyCol, permissions \in InputPermissions :
                  SameStore(State, setCellPermissions(State, rowIndex, colIndex, permissions))

\* C4 witness: the viewer is signed in with a table selected whose cell (0, 0)
\* exists, and each of the four calls is refused: the edit as forbidden, both
\* confirmations for lack of 'confirm_data', setCellPermissions as admin-only.
RejectedChangesNothingWitness ==
    /\ user # null
    /\ user.role = "viewer"
    /\ CurrentCell(State, 0, 0) # undefined
    /\ updateCell(State, 0, 0, StringValue(<<"a">>)).toast = "no permission to edit"
    /\ confirmCell(State, 0, 0, Absent).toast = "no permission to confirm"
    /\ confirmTable(State, Absent).toast = "no permission to confirm"
    /\ setCellPermissions(State, 0, 0, CellPermissions({"viewer"}, TRUE, TRUE)).toast
           = "only admins"

\* C4 witness of the locked case: a signed-in user who may edit cell (0, 0),
\* which is confirmed.
LockedEditWitness ==
    /\ user # null
    /\ canEditCell(State, 0, 0)
    /\ isConfirmed(CurrentCell(State, 0, 0))
    /\ updateCell(State, 0, 0, StringValue(<<"a">>)).toast = "cell is confirmed"

----------------------------------------------------------------------------
(* C5, C6, C7 *)

\* C5: with a table selected and an admin signed in, canViewCell and
\* canEditCell are true at every (row, col), whatever the cell's permissions
\* record says.
AdminBypass ==
    (user # null /\ user.role = "admin" /\ currentTable(State) # null) =>
        \A rowIndex \in AnyRow, colIndex \in AnyCol :
            /\ canViewCell(State, rowIndex, colIndex)
            /\ canEditCell(State, rowIndex, colIndex)

\* C5 witness: an admin is signed in and cell (0, 0) carries a record whose
\* roles omit admin and whose editable flag is off; both checks still pass.
AdminBypassWitness ==
    /\ user # null
    /\ user.role = "admin"
    /\ CurrentCell(State, 0, 0) # undefined
    /\ CurrentCell(State, 0, 0).permissions
           = Present(CellPermissions({"dp_team", "qa_team"}, FALSE, TRUE))
    /\ canEditCell(State, 0, 0)
    /\ canViewCell(State, 0, 0)

\* C6: for an existing cell with no permissions record, canViewCell is true
\* for every signed-in role and canEditCell is true exactly for admin and
\* dp_team.
DefaultAsymmetry ==
    \A rowIndex \in AnyRow, colIndex \in AnyCol :
        LET cell == CurrentCell(State, rowIndex, colIndex) IN
        (user # null /\ cell # undefined /\ cell.permissions = Absent) =>
            /\ canViewCell(State, rowIndex, colIndex)
            /\ canEditCell(State, rowIndex, colIndex)
                   <=> user.role \in {"admin", "dp_team"}

\* C6 witness: qa_team is signed in and a cell without a permissions record
\* exists in the current table: it can be viewed and cannot be edited.
DefaultAsymmetryWitness ==
    /\ user # null
    /\ user.role = "qa_team"
    /\ \E rowIndex \in AnyRow, colIndex \in AnyCol :
          /\ CurrentCell(State, rowIndex, colIndex) # undefined
          /\ CurrentCell(State, rowIndex, colIndex).permissions = Absent
          /\ canViewCell(State, rowIndex, colIndex)
          /\ ~canEditCell(State, rowIndex, colIndex)

\* C7: for a signed-in user who is not admin and an existing cell with a
\* permissions record p, canViewCell is (role in p.roles and p.viewable) and
\* canEditCell is (role in p.roles and p.editable), whatever the default
\* policy would say.
OverrideSemantics ==
    \A rowIndex \in AnyRow, colIndex \in AnyCol :
        LET cell == CurrentCell(State, rowIndex, colIndex) IN
        (user # null /\ user.role # "admin" /\ cell # undefined
           /\ cell.permissions # Absent) =>
            /\ canViewCell(State, rowIndex, colIndex)
                   <=> (/\ user.role \in cell.permissions[1].roles
                        /\ cell.permissions[1].viewable)
            /\ canEditCell(State, rowIndex, colIndex)
                   <=> (/\ user.role \in cell.permissions[1].roles
                        /\ cell.permissions[1].editable)

\* C7 witness: dp_team, the default editor, is signed in and cell (0, 0)
\* carries a record naming only qa_team and viewer: dp_team can neither view
\* nor edit it.
OverrideSemanticsWitness ==
    /\ user # null
    /\ user.role = "dp_team"
    /\ CurrentCell(State, 0, 0) # undefined
    /\ CurrentCell(State, 0, 0).permissions
           = Present(CellPermissions({"qa_team", "viewer"}, TRUE, TRUE))
    /\ ~canEditCell(State, 0, 0)
    /\ ~canViewCell(State, 0, 0)

----------------------------------------------------------------------------
(* C8 *)

\* C8: in every reachable state every row of every table is as long as the
\* table's header list.
StructuralConsistency ==
    \A i \in 1 .. Len(tables) :
        \A j \in 1 .. Len(tables[i].rows) :
            tables[i].rows[j].length = Len(tables[i].headers)

\* addRow and addColumn, the two operations the structural property names,
\* keep it: after addColumn every row has grown with the header list, and the
\* row addRow appends is as long as the header list
GrowthKeepsShape ==
    currentTable(State) # null /\ user # null =>
        LET afterRow == currentTable(After(State, addRow(State)))
            afterCol == currentTable(After(State, addColumn(State, "h")))
        IN  /\ afterRow.rows[Len(afterRow.rows)].length = Len(afterRow.headers)
            /\ Len(afterCol.headers) = Len(currentTable(State).headers) + 1
            /\ \A j \in 1 .. Len(afterCol.rows) :
                  afterCol.rows[j].length = currentTable(State).rows[j].length + 1

----------------------------------------------------------------------------
(* C9 *)

Versions(tbls) == [i \in 1 .. Len(tbls) |-> tbls[i].version]

\* the versions of the tables of s are the same after r
KeepsVersions(s, r) ==
    /\ Len(r.tables) >= Len(s.tables)
    /\ SubSeq(Versions(r.tables), 1, Len(s.tables)) = Versions(s.tables)

\* C9: every table starts at version 1; a confirmTable that goes through (a
\* table selected, the user holding 'confirm_data') adds exactly 1 to the
\* current table's version, confirmed before or not, and leaves the other
\* versions alone; no other operation changes a version; so a table's version
\* is 1 plus the confirmTable calls that went through on it.
VersionMonotonicity ==
    /\ \A i \in 1 .. Len(tables) :
          tables[i].version = 1 + confirmTableCalls[tables[i].id]
    /\ \A comments \in AnyComments :
          LET r == confirmTable(State, comments) IN
          IF currentTable(State) # null /\ user # null
                /\ "confirm_data" \in user.permissions
          THEN /\ Len(r.tables) = Len(tables)
               /\ \A i \in 1 .. Len(tables) :
                     r.tables[i].version =
                         IF tables[i].id = currentTableId
                         THEN tables[i].version + 1 ELSE tables[i].version
          ELSE KeepsVersions(State, r)
    /\ \A headers \in InputHeaders, initialRows \in InputInitialRows :
          LET r == createTable(State, "T", headers, initialRows) IN
          /\ KeepsVersions(State, r)
          /\ \A i \in Len(tables) + 1 .. Len(r.tables) : r.tables[i].version = 1
    /\ \A rowIndex \in AnyRow, colIndex \in AnyCol :
          /\ \A value \in AnyValue :
                KeepsVersions(State, updateCell(State, rowIndex, colIndex, value))
          /\ \A comments \in AnyComments :
                KeepsVersions(State, confirmCell(State, rowIndex, colIndex, comments))
          /\ \A permissions \in InputPermissions :
                KeepsVersions(State,
                              setCellPermissions(State, rowIndex, colIndex, permissions))
    /\ KeepsVersions(State, addRow(State))
    /\ KeepsVersions(State, addColumn(State, "h"))
    /\ \A id \in TableIds : KeepsVersions(State, selectTable(State, id))

\* C9 witness: a confirmTable went through on the current table, which is at
\* version 2, and a further one would take it to 3.
VersionMonotonicityWitness ==
    /\ user # null
    /\ currentTable(State) # null
    /\ currentTable(State).confirmed
    /\ currentTable(State).version = 2
    /\ confirmTableCalls[currentTableId] = 1
    /\ "confirm_data" \in user.permissions
    /\ currentTable(After(State, confirmTable(State, Absent))).version = 3

----------------------------------------------------------------------------
(* C10 *)

\* C10: a confirmCell that goes through (a table selected, the user holding
\* 'confirm_data', the cell there) sets confirmed, confirmedBy = the user's id
\* and confirmedComments = comments on the target cell and nothing else: the
\* target's value, history and permissions, every other cell, the shape of
\* the rows, the table's other fields, the other tables and the selection are
\* as before.
ConfirmCellFrame ==
    \A rowIndex \in AnyRow, colIndex \in AnyCol, comments \in AnyComments :
        LET ct == currentTable(State)
            cell == CurrentCell(State, rowIndex, colIndex)
            r == confirmCell(State, rowIndex, colIndex, comments)
            ctAfter == currentTable(After(State, r))
            cellAfter == CurrentCell(After(State, r), rowIndex, colIndex)
        IN  (user # null /\ "confirm_data" \in user.permissions /\ cell # undefined) =>
                /\ cellAfter # undefined
                /\ cellAfter.confirmed
                /\ cellAfter.confirmedBy = Present(user.id)
                /\ cellAfter.confirmedAt # Absent
                /\ cellAfter.confirmedComments = comments
                /\ cellAfter.value = cell.value
                /\ cellAfter.history = cell.history
                /\ cellAfter.permissions = cell.permissions
                /\ \A otherRow \in AnyRow, otherCol \in AnyCol :
                      <<otherRow, otherCol>> # <<rowIndex, colIndex>> =>
                          CellAt(ctAfter.rows, otherRow, otherCol)
                              = CellAt(ct.rows, otherRow, otherCol)
                /\ Len(ctAfter.rows) = Len(ct.rows)
                /\ \A j \in 1 .. Len(ct.rows) :
                      /\ ctAfter.rows[j].length = ct.rows[j].length
                      /\ DOMAIN ctAfter.rows[j].items = DOMAIN ct.rows[j].items
                /\ [ctAfter EXCEPT !.rows = ct.rows] = ct
                /\ Len(r.tables) = Len(tables)
                /\ \A i \in 1 .. Len(tables) :
                      tables[i].id # currentTableId => r.tables[i] = tables[i]
                /\ r.currentTableId = currentTableId

\* C10 witness: the signed-in user's confirmCell was the last call that went
\* through: the log ends with that user's (confirm, cell) entry and cell
\* (0, 0), with its seeded permissions, carries that user's confirmation and
\* comment while its neighbour (0, 1) is not confirmed.
ConfirmCellFrameWitness ==
    /\ user # null
    /\ logs # <<>>
    /\ logs[Len(logs)].actionType = "confirm"
    /\ logs[Len(logs)].resource = "cell"
    /\ logs[Len(logs)].userId = user.id
    /\ CurrentCell(State, 0, 0) # undefined
    /\ CurrentCell(State, 0, 0).confirmed
    /\ CurrentCell(State, 0, 0).confirmedBy = Present(user.id)
    /\ CurrentCell(State, 0, 0).confirmedComments = Present("ok")
    /\ CurrentCell(State, 0, 0).permissions = Present(SeedPermissions(0))
    /\ CurrentCell(State, 0, 1) # undefined
    /\ ~CurrentCell(State, 0, 1).confirmed

----------------------------------------------------------------------------
(* C11 *)

\* the confirmation stamps of a cell or of a table go with its flag
Stamped(x) ==
    /\ x.confirmed <=> x.confirmedBy # Absent
    /\ x.confirmed <=> x.confirmedAt # Absent

\* every cell a row holds, under an index or under another property
CellsOf(row) == {row.items[k] : k \in DOMAIN row.items} \ {undefined}

StampedTables(tbls) ==
    \A i \in 1 .. Len(tbls) :
        /\ Stamped(tbls[i])
        /\ \A j \in 1 .. Len(tbls[i].rows) :
              \A cell \in CellsOf(tbls[i].rows[j]) : Stamped(cell)

\* C11: in every reachable state, every table and every cell of every table
\* has confirmedBy and confirmedAt present exactly when its confirmed flag is
\* true.
StampsAtomicWithFlag == StampedTables(tables)

\* C11 witness: cell (0, 0) of the current table is confirmed and carries its
\* confirmer and time, while its neighbour (0, 1) and the table itself are
\* neither confirmed nor stamped.
StampsAtomicWithFlagWitness ==
    /\ CurrentCell(State, 0, 0) # undefined
    /\ CurrentCell(State, 0, 0).confirmed
    /\ CurrentCell(State, 0, 0).confirmedBy # Absent
    /\ CurrentCell(State, 0, 0).confirmedAt # Absent
    /\ CurrentCell(State, 0, 1) # undefined
    /\ ~CurrentCell(State, 0, 1).confirmed
    /\ CurrentCell(State, 0, 1).confirmedBy = Absent
    /\ ~currentTable(State).confirmed
    /\ currentTable(State).confirmedAt = Absent

----------------------------------------------------------------------------
(* The calls a caller can make in a state, each with its result *)

Call(op, r) == [op |-> op, r |-> r]

TableStoreCalls(s) ==
    {Call("createTable", createTable(s, "T", headers, initialRows)) :
        headers \in InputHeaders, initialRows \in InputInitialRows}
    \cup {Call("selectTable", selectTable(s, id)) : id \in TableIds}
    \cup {Call("updateCell", updateCell(s, rowIndex, colIndex, value)) :
             rowIndex \in AnyRow, colIndex \in AnyCol, value \in AnyValue}
    \cup {Call("confirmCell", confirmCell(s, rowIndex, colIndex, comments)) :
             rowIndex \in AnyRow, colIndex \in AnyCol, comments \in AnyComments}
    \cup {Call("confirmTable", confirmTable(s, comments)) : comments \in AnyComments}
    \cup {Call("exportTableToPDF", exportTableToPDF(s))}
    \cup {Call("addRow", addRow(s))}
    \cup {Call("addColumn", addColumn(s, "h"))}
    \cup {Call("setCellPermissions",
                setCellPermissions(s, rowIndex, colIndex, permissions)) :
             rowIndex \in AnyRow, colIndex \in AnyCol,
             permissions \in InputPermissions}

AuditCalls(s) == {Call("clearLogs", clearLogs(s))}

\* the Table Store calls but those of one operation
TableStoreCallsBut(s, op) ==
    (IF op = "createTable" THEN {}
     ELSE {Call("createTable", createTable(s, "T", headers, initialRows)) :
              headers \in InputHeaders, initialRows \in InputInitialRows})
    \cup (IF op = "selectTable" THEN {}
          ELSE {Call("selectTable", selectTable(s, id)) : id \in TableIds})
    \cup (IF op = "updateCell" THEN {}
          ELSE {Call("updateCell", updateCell(s, rowIndex, colIndex, value)) :
                   rowIndex \in AnyRow, colIndex \in AnyCol, value \in AnyValue})
    \cup (IF op = "confirmCell" THEN {}
          ELSE {Call("confirmCell", confirmCell(s, rowIndex, colIndex, comments)) :
                   rowIndex \in AnyRow, colIndex \in AnyCol, comments \in AnyComments})
    \cup (IF op = "confirmTable" THEN {}
          ELSE {Call("confirmTable", confirmTable(s, comments)) :
                   comments \in AnyComments})
    \cup (IF op = "exportTableToPDF" THEN {}
          ELSE {Call("exportTableToPDF", exportTableToPDF(s))})
    \cup (IF op = "addRow" THEN {} ELSE {Call("addRow", addRow(s))})
    \cup (IF op = "addColumn" THEN {} ELSE {Call("addColumn", addColumn(s, "h"))})
    \cup (IF op = "setCellPermissions" THEN {}
          ELSE {Call("setCellPermissions",
                     setCellPermissions(s, rowIndex, colIndex, permissions)) :
                   rowIndex \in AnyRow, colIndex \in AnyCol,
                   permissions \in InputPermissions})

----------------------------------------------------------------------------
(* C12 *)

\* every table of s that is confirmed is confirmed after r, and every cell
\* of s that is confirmed is, after r, at its place and confirmed
StaysConfirmed(s, r) ==
    \A i \in 1 .. Len(s.tables) :
        /\ s.tables[i].confirmed => r.tables[i].confirmed
        /\ \A j \in 1 .. Len(s.tables[i].rows) :
              \A k \in DOMAIN s.tables[i].rows[j].items :
                  isConfirmed(s.tables[i].rows[j].items[k]) =>
                      isConfirmed(CellAt(r.tables[i].rows, j - 1, k))

\* no Table Store call made in s takes a confirmation away
OneWayFrom(s) == \A call \in TableStoreCalls(s) : StaysConfirmed(s, call.r)

\* C12: confirmation is one-way: a cell or a table that is confirmed stays
\* confirmed under every Table Store operation, in every reachable state and
\* in the states a confirmCell leads to from there.
ConfirmationOneWay ==
    /\ OneWayFrom(State)
    /\ \A rowIndex \in AnyRow, colIndex \in AnyCol :
          OneWayFrom(After(State, confirmCell(State, rowIndex, colIndex, Absent)))

\* the same for the cells stored under an index of the row (0 and up): the
\* ones addColumn copies
StaysConfirmedAtIndices(s, r) ==
    \A i \in 1 .. Len(s.tables) :
        /\ s.tables[i].confirmed => r.tables[i].confirmed
        /\ \A j \in 1 .. Len(s.tables[i].rows) :
              \A k \in DOMAIN s.tables[i].rows[j].items :
                  (k >= 0 /\ isConfirmed(s.tables[i].rows[j].items[k])) =>
                      isConfirmed(CellAt(r.tables[i].rows, j - 1, k))

ConfirmationOneWayAtIndices ==
    /\ \A call \in TableStoreCalls(State) : StaysConfirmedAtIndices(State, call.r)
    /\ \A rowIndex \in AnyRow, colIndex \in AnyCol :
          LET s == After(State, confirmCell(State, rowIndex, colIndex, Absent)) IN
          \A call \in TableStoreCalls(s) : StaysConfirmedAtIndices(s, call.r)

----------------------------------------------------------------------------
(* C13 *)

\* the value of the cell at every place of a table, undefined where none is
ValuesOf(table) ==
    [place \in AnyRow \X AnyCol |->
        IF CellAt(table.rows, place[1], place[2]) = undefined THEN undefined
        ELSE CellAt(table.rows, place[1], place[2]).value]

\* C13: when the current table is confirmed (a confirmTable went through on
\* it), every updateCell on it, at any place, by any user, with any value,
\* returns false and leaves every cell value of the table as it was.
TableConfirmationLocksValues ==
    (currentTable(State) # null /\ currentTable(State).confirmed) =>
        \A rowIndex \in AnyRow, colIndex \in AnyCol, value \in AnyValue :
            LET r == updateCell(State, rowIndex, colIndex, value) IN
            /\ r.ret = "false"
            /\ ValuesOf(currentTable(After(State, r))) = ValuesOf(currentTable(State))

----------------------------------------------------------------------------
(* C14 *)

\* every cell of s outside `skip`, stored under a key of `keys`, is at its
\* place after r with the permissions record (or the lack of one) it had
KeepsPermissions(s, r, skip, keys) ==
    \A i \in 1 .. Len(s.tables) :
        \A j \in 1 .. Len(s.tables[i].rows) :
            \A k \in DOMAIN s.tables[i].rows[j].items \cap keys :
                LET cell == s.tables[i].rows[j].items[k]
                    cellAfter == CellAt(r.tables[i].rows, j - 1, k)
                IN  (cell # undefined /\ <<s.tables[i].id, j - 1, k>> \notin skip) =>
                        IF cellAfter = undefined THEN cell.permissions = Absent
                        ELSE cellAfter.permissions = cell.permissions

\* in s: a call that is not an admin's setCellPermissions leaves every
\* permissions record alone; an admin's setCellPermissions on a cell that is
\* there leaves the cell as it was but for its record, which is the one
\* supplied, and leaves the records of the other cells alone
PermissionsFrom(s, keys) ==
    /\ \A call \in TableStoreCalls(s) :
          (call.op # "setCellPermissions" \/ s.user = null \/ s.user.role # "admin")
              => KeepsPermissions(s, call.r, {}, keys)
    /\ (s.user # null /\ s.user.role = "admin") =>
          \A rowIndex \in AnyRow, colIndex \in AnyCol, permissions \in InputPermissions :
              LET cell == CurrentCell(s, rowIndex, colIndex)
                  r == setCellPermissions(s, rowIndex, colIndex, permissions)
              IN  /\ KeepsPermissions(s, r, {<<s.currentTableId, rowIndex, colIndex>>},
                                      keys)
                  /\ cell # undefined =>
                        CurrentCell(After(s, r), rowIndex, colIndex)
                            = [cell EXCEPT !.permissions = Present(permissions)]

\* C14: a cell's permissions record changes only through a setCellPermissions
\* call made by an admin, and such a call on an existing cell makes the
\* record exactly the one supplied and leaves the cell's value, history and
\* confirmation fields alone; in every reachable state and in the states a
\* setCellPermissions leads to from there.
PermissionsAdminOnlyWholesale ==
    /\ PermissionsFrom(State, Int)
    /\ \A rowIndex \in AnyRow, colIndex \in AnyCol, permissions \in InputPermissions :
          PermissionsFrom(
              After(State, setCellPermissions(State, rowIndex, colIndex, permissions)),
              Int)

\* the same for the cells stored under an index of the row (0 and up)
PermissionsAdminOnlyWholesaleAtIndices ==
    /\ PermissionsFrom(State, Nat)
    /\ \A rowIndex \in AnyRow, colIndex \in AnyCol, permissions \in InputPermissions :
          PermissionsFrom(
              After(State, setCellPermissions(State, rowIndex, colIndex, permissions)),
              Nat)

----------------------------------------------------------------------------
(* C15 *)

\* createTable arguments the claim is read at: no header, one, two, four;
\* no row, one, two
AnyHeaders == {<<>>, <<"h">>, <<"h", "h">>, <<"h", "h", "h", "h">>}
AnyInitialRows == {0, 1, 2}

\* C15: for a signed-in user, createTable(name, headers, n) adds one table
\* behind the existing ones, which stay as they were and in their order; the
\* new table's id is no existing table's id, its version is 1, it is not
\* confirmed, it has n rows of headers.length cells, each with value null,
\* not confirmed, with an empty history; and it is the current selection.
CreateTablePostcondition ==
    user # null =>
        \A headers \in AnyHeaders, initialRows \in AnyInitialRows :
            LET r == createTable(State, "T", headers, initialRows)
                newTable == r.tables[Len(r.tables)]
            IN  /\ Len(r.tables) = Len(tables) + 1
                /\ SubSeq(r.tables, 1, Len(tables)) = tables
                /\ \A i \in 1 .. Len(tables) : tables[i].id # newTable.id
                /\ newTable.version = 1
                /\ ~newTable.confirmed
                /\ newTable.headers = headers
                /\ Len(newTable.rows) = initialRows
                /\ \A j \in 1 .. initialRows :
                      /\ newTable.rows[j].length = Len(headers)
                      /\ DOMAIN newTable.rows[j].items = 0 .. Len(headers) - 1
                      /\ \A k \in 0 .. Len(headers) - 1 :
                            /\ newTable.rows[j].items[k].value = null
                            /\ ~newTable.rows[j].items[k].confirmed
                            /\ newTable.rows[j].items[k].history = <<>>
                /\ r.currentTableId = newTable.id

\* C15 witness: a second table was created by the signed-in user while a
\* first one was in the store: the log ends with that user's (create, table)
\* entry, and the second table, with another id, version 1 and its one row,
\* is the selection.
CreateTablePostconditionWitness ==
    /\ user # null
    /\ Len(tables) = 2
    /\ logs # <<>>
    /\ logs[Len(logs)].actionType = "create"
    /\ logs[Len(logs)].resource = "table"
    /\ logs[Len(logs)].userId = user.id
    /\ currentTableId = tables[2].id
    /\ tables[2].id # tables[1].id
    /\ tables[2].version = 1
    /\ Len(tables[2].rows) = 1

----------------------------------------------------------------------------
(* C16 *)

\* the (action, resource) pair each operation hands to addLog
AuditPair(op) ==
    CASE op = "createTable" -> <<"create", "table">>
      [] op = "selectTable" -> <<"read", "table">>
      [] op = "updateCell" -> <<"update", "cell">>
      [] op = "confirmCell" -> <<"confirm", "cell">>
      [] op = "confirmTable" -> <<"confirm", "table">>
      [] op = "addRow" -> <<"create", "row">>
      [] op = "addColumn" -> <<"create", "column">>
      [] op = "setCellPermissions" -> <<"update", "permissions">>
      [] op = "exportTableToPDF" -> <<"export", "pdf">>

\* a call went through, told by what the caller can see of it: updateCell
\* returned true, addRow added its row, the others announced their success
Succeeded(s, call) ==
    CASE call.op = "updateCell" -> call.r.ret = "true"
      [] call.op = "addRow" -> call.r.tables # s.tables
      [] call.op = "selectTable" -> FALSE
      [] OTHER -> call.r.toast = "success"

\* the log after r is the log of s and one entry more, of s's user, with
\* the pair of op
OneEntryMore(s, r, op) ==
    /\ Len(r.logs) = Len(s.logs) + 1
    /\ SubSeq(r.logs, 1, Len(s.logs)) = s.logs
    /\ r.logs[Len(r.logs)].userId = s.user.id
    /\ r.logs[Len(r.logs)].userRole = s.user.role
    /\ <<r.logs[Len(r.logs)].actionType, r.logs[Len(r.logs)].resource>>
           = AuditPair(op)

----------------------------------------------------------------------------
(* C17 *)

\* the log of s is the front of the log after r
LogExtended(s, r) ==
    /\ Len(r.logs) >= Len(s.logs)
    /\ SubSeq(r.logs, 1, Len(s.logs)) = s.logs

\* C17: under every operation of the Table Store and of the audit
\* collaborator, the audit log before the call is a prefix of the audit log
\* after it.
AuditLogAppendOnly ==
    \A call \in TableStoreCalls(State) \cup AuditCalls(State) :
        LogExtended(State, call.r)

\* the same for the operations of the Table Store alone
AuditLogKeptByTableStore ==
    \A call \in TableStoreCalls(State) : LogExtended(State, call.r)

----------------------------------------------------------------------------
(* C18 *)

\* C18: while no user is signed in, createTable, selectTable, updateCell,
\* confirmCell, confirmTable, addRow, addColumn and setCellPermissions each
\* leave the table collection, the selection and the audit log as they were.
UnauthenticatedNoOps ==
    user = null =>
        \A call \in TableStoreCalls(State) :
            call.op # "exportTableToPDF" => SameStore(State, call.r)

\* the same without selectTable, and what is left of it for selectTable: the
\* table collection and the audit log
UnauthenticatedNoOpsButSelect ==
    user = null =>
        \A call \in TableStoreCalls(State) :
            IF call.op = "selectTable"
            THEN call.r.tables = tables /\ call.r.logs = logs
            ELSE SameStore(State, call.r)

----------------------------------------------------------------------------
(* C19 *)

\* C19: with a user signed in and a table selected, updateCell, confirmCell
\* and setCellPermissions return normally at every row and column index,
\* negative ones and ones past the rows or the headers included: none throws.
NoFatalErrors ==
    (user # null /\ currentTable(State) # null) =>
        \A rowIndex \in AnyRow, colIndex \in AnyCol :
            /\ \A value \in AnyValue :
                  ~updateCell(State, rowIndex, colIndex, value).threw
            /\ \A comments \in AnyComments :
                  ~confirmCell(State, rowIndex, colIndex, comments).threw
            /\ \A permissions \in InputPermissions :
                  ~setCellPermissions(State, rowIndex, colIndex, permissions).threw

\* the same at the rows that are there (0 up to the last row), whatever the
\* column
NoFatalErrorsAtRows ==
    (user # null /\ currentTable(State) # null) =>
        \A rowIndex \in 0 .. Len(currentTable(State).rows) - 1, colIndex \in AnyCol :
            /\ \A value \in AnyValue :
                  ~updateCell(State, rowIndex, colIndex, value).threw
            /\ \A comments \in AnyComments :
                  ~confirmCell(State, rowIndex, colIndex, comments).threw
            /\ \A permissions \in InputPermissions :
                  ~setCellPermissions(State, rowIndex, colIndex, permissions).threw

----------------------------------------------------------------------------
(* C20 *)

\* column names and cell values that need quoting, and ones that do not
CsvHeaders == {"h", ",", "\""}
CsvValues == {StringValue(<<",">>), StringValue(<<"a", "\"">>)}

\* the fields of a text, cut at every sep that is not between quotes
RECURSIVE SplitUnquoted(_, _, _, _, _)
SplitUnquoted(text, sep, inQuotes, field, fields) ==
    IF text = <<>> THEN Append(fields, field)
    ELSE IF Head(text) = "\""
    THEN SplitUnquoted(Tail(text), sep, ~inQuotes, Append(field, Head(text)), fields)
    ELSE IF Head(text) = sep /\ ~inQuotes
    THEN SplitUnquoted(Tail(text), sep, inQuotes, <<>>, Append(fields, field))
    ELSE SplitUnquoted(Tail(text), sep, inQuotes, Append(field, Head(text)), fields)

\* a field as CSV wants it: in quotes, with its quotes doubled, when it holds
\* a comma or a quote
Quoted(chars) ==
    IF includes(chars, ",") \/ includes(chars, "\"")
    THEN <<"\"">> \o replaceQuotes(chars) \o <<"\"">>
    ELSE chars

\* the characters of a cell's value, none for no cell and for null
ValueChars(cell) ==
    IF cell = undefined THEN <<>>
    ELSE IF cell.value = null THEN <<>>
    ELSE cell.value.chars

\* text is the export of table: a header line if asked for, then one line
\* per row in the order of the rows (the last line break may be missing or
\* there), each line made of headers.length fields, each field Quoted
WellFormedCsv(text, table, withHeader) ==
    LET lines == SplitUnquoted(text, "\n", FALSE, <<>>, <<>>)
        first == IF withHeader THEN 1 ELSE 0
        n == first + Len(table.rows)
    IN  /\ \/ Len(lines) = n
           \/ Len(lines) = n + 1 /\ lines[n + 1] = <<>>
        /\ withHeader =>
              SplitUnquoted(lines[1], ",", FALSE, <<>>, <<>>)
                  = [i \in 1 .. Len(table.headers) |-> Quoted(<<table.headers[i]>>)]
        /\ \A j \in 1 .. Len(table.rows) :
              SplitUnquoted(lines[first + j], ",", FALSE, <<>>, <<>>)
                  = [i \in 1 .. Len(table.headers) |->
                        Quoted(ValueChars(CellAt(table.rows, j - 1, i - 1)))]

\* the states the exports are read in: s, s after a column of any name was
\* added, s after any value was written at any place
ExportStates(s) ==
    {s} \cup {After(s, addColumn(s, header)) : header \in CsvHeaders}
        \cup {After(s, updateCell(s, rowIndex, colIndex, value)) :
                 rowIndex \in AnyRow, colIndex \in AnyCol, value \in CsvValues}

\* both exports of s give the text the claim describes
ExportsWellFormed(s) ==
    /\ \A selectedTableId \in TableIds, includeHeaders \in BOOLEAN :
          LET r == handleExportCSV(s, selectedTableId, includeHeaders) IN
          selectedTable(s, selectedTableId) # null =>
              /\ ~r.threw
              /\ WellFormedCsv(r.ret, selectedTable(s, selectedTableId), includeHeaders)
    /\ currentTable(s) # null =>
          /\ ~handleExportToCSV(s).threw
          /\ WellFormedCsv(handleExportToCSV(s).ret, currentTable(s), TRUE)

\* C20: for every table the exported text has one line per row in row
\* order, after one header line iff headers are asked for, and every field,
\* header or cell value, that holds a comma or a quote is in quotes with its
\* quotes doubled, so that every line has headers.length fields.
CsvExport == \A s \in ExportStates(State) : ExportsWellFormed(s)

\* every row of the table has a cell under each index 0 .. headers.length-1
\* and no other index, and no header needs quoting
PlainShape(table) ==
    /\ \A i \in 1 .. Len(table.headers) : table.headers[i] \notin {",", "\""}
    /\ \A j \in 1 .. Len(table.rows) :
          /\ table.rows[j].length = Len(table.headers)
          /\ \A k \in 0 .. Len(table.headers) - 1 :
                Get(table.rows[j], k) # undefined

\* the export page's text is as the claim describes for the tables of that
\* shape, whatever their cell values
PageExportQuotesValues ==
    \A s \in ExportStates(State) :
        \A selectedTableId \in TableIds, includeHeaders \in BOOLEAN :
            LET table == selectedTable(s, selectedTableId)
                r == handleExportCSV(s, selectedTableId, includeHeaders)
            IN  (table # null /\ PlainShape(table)) =>
                    /\ ~r.threw
                    /\ WellFormedCsv(r.ret, table, includeHeaders)

----------------------------------------------------------------------------
(* C21 *)

\* a table with this id is in the collection
HasTable(tbls, id) == \E i \in 1 .. Len(tbls) : tbls[i].id = id

\* every table of s is at its place, under its id, after r
KeepsTables(s, r) ==
    /\ Len(r.tables) >= Len(s.tables)
    /\ \A i \in 1 .. Len(s.tables) : r.tables[i].id = s.tables[i].id

\* ids the claim is read at: the ones randomUUID hands out and one it has
\* not handed out yet
AnyTableId == TableIds \cup {UUID(MaxTables + 1)}

\* C21: selectTable(id) makes id the selection when a table with that id is
\* in the store and otherwise leaves the selection and the audit log as they
\* were; in every reachable state the selection is null or the id of a table
\* of the store; and no Table Store operation removes a table or changes a
\* table's id.
SelectionIsATable ==
    /\ currentTableId = null \/ HasTable(tables, currentTableId)
    /\ \A id \in AnyTableId :
          LET r == selectTable(State, id) IN
          IF HasTable(tables, id)
          THEN r.currentTableId = id
          ELSE r.currentTableId = currentTableId /\ r.logs = logs
    /\ \A call \in TableStoreCalls(State) : KeepsTables(State, call.r)

\* C21 witness: two tables are in the store and the first one was selected
\* again after the second was created (createTable selects the table it
\* adds, so only selectTable leads here); a selectTable of the second id
\* would move the selection there, and one of an id that no table has would
\* leave the selection on the first table.
SelectionIsATableWitness ==
    /\ Len(tables) = 2
    /\ currentTableId = tables[1].id
    /\ selectTable(State, tables[2].id).currentTableId = tables[2].id
    /\ selectTable(State, UUID(MaxTables + 1)).currentTableId = tables[1].id

----------------------------------------------------------------------------
(* C22 *)

\* row arguments past the last row: the next row and ones further out
RowsBeyond(table) == Len(table.rows) .. Len(table.rows) + 2

\* a row of n cells, under the indices 0 .. n-1 and nowhere else, each of
\* them empty but for the one at colIndex, if there is one
EmptyRowBut(row, n, colIndex) ==
    /\ row.length = n
    /\ DOMAIN row.items = 0 .. n - 1
    /\ \A k \in 0 .. n - 1 : k # colIndex => row.items[k] = EmptyCell

\* updateCell(rowIndex, colIndex, value) on s, when it returns true for a
\* rowIndex past the last row, leaves rowIndex + 1 rows: the old ones as they
\* were, then rows of headers.length empty cells, the last of them holding
\* at colIndex the cell written: value, and one history entry for null
ExtendsSparsely(s, rowIndex, colIndex, value) ==
    LET ct == currentTable(s)
        r == updateCell(s, rowIndex, colIndex, value)
        ctAfter == currentTable(After(s, r))
        written == CellAt(ctAfter.rows, rowIndex, colIndex)
    IN  r.ret = "true" =>
            /\ Len(ctAfter.rows) = rowIndex + 1
            /\ SubSeq(ctAfter.rows, 1, Len(ct.rows)) = ct.rows
            /\ \A j \in Len(ct.rows) + 1 .. rowIndex + 1 :
                  EmptyRowBut(ctAfter.rows[j], Len(ct.headers),
                              IF j = rowIndex + 1 THEN colIndex ELSE -1)
            /\ written # undefined
            /\ written.value = value
            /\ Len(written.history) = 1
            /\ written.history[1].value = null
            /\ written.confirmed = FALSE
            /\ written.permissions = Absent

\* canEditCell is true, for any signed-in role, where the current table has
\* no cell
NewCellsEditable ==
    (user # null /\ currentTable(State) # null) =>
        \A rowIndex \in AnyRow \cup RowsBeyond(currentTable(State)), colIndex \in AnyCol :
            CurrentCell(State, rowIndex, colIndex) = undefined
                => canEditCell(State, rowIndex, colIndex)

\* C22: where the current table has no cell, canEditCell is true for every
\* signed-in role, viewer and qa_team included; and an updateCell that
\* returns true for a row index at or past the row count leaves exactly
\* row + 1 rows, the old rows unchanged, every added row made of
\* headers.length cells that are empty (null, not confirmed, no history, no
\* permissions record) but for the written cell, which holds the value and
\* one history entry whose value is null.
SparseExtension ==
    /\ NewCellsEditable
    /\ currentTable(State) # null =>
          \A rowIndex \in RowsBeyond(currentTable(State)), colIndex \in AnyCol,
             value \in AnyValue :
              ExtendsSparsely(State, rowIndex, colIndex, value)

\* the same for the columns of the header list
SparseExtensionInsideHeaders ==
    /\ NewCellsEditable
    /\ currentTable(State) # null =>
          \A rowIndex \in RowsBeyond(currentTable(State)),
             colIndex \in 0 .. Len(currentTable(State).headers) - 1,
             value \in AnyValue :
              ExtendsSparsely(State, rowIndex, colIndex, value)

----------------------------------------------------------------------------
(* C23 *)

\* the operations that write the new cell into a row of the rendered table:
\* updatedRows = [...currentTable.rows] copies the array of rows, not the
\* rows, and updatedRows[rowIndex][colIndex] = {...} writes into one of them
InPlaceOps == {"updateCell", "confirmCell", "setCellPermissions"}

\* what the closures of a render read once `call` has run in that render and
\* no new render has happened: the tables and the selection of the render
\* (setTables and setCurrentTableId are not applied yet) with the rows that
\* call wrote in place, a log that holds call's entry (setLogs takes a
\* function of the previous log) and a clock that has moved on
SameRender(s, call) ==
    [tables |-> IF call.op \in InPlaceOps
                THEN [i \in 1 .. Len(s.tables) |->
                         [s.tables[i] EXCEPT !.rows =
                             [j \in 1 .. Len(s.tables[i].rows) |->
                                 call.r.tables[i].rows[j]]]]
                ELSE s.tables,
     currentTableId |-> s.currentTableId,
     user |-> s.user,
     logs |-> call.r.logs,
     clock |-> call.r.clock]

\* the call handed setTables a value
SetsTables(s, call) ==
    call.op \notin {"selectTable", "exportTableToPDF"} /\ Succeeded(s, call)

\* the state of the next render after call1 and then call2 ran in the render
\* of s (call2 on SameRender(s, call1)): of two setTables values the later
\* one is kept, and the same for setCurrentTableId, which createTable calls
Committed(s, call1, call2) ==
    LET seen == SameRender(s, call1) IN
    [tables |-> IF SetsTables(seen, call2) THEN call2.r.tables ELSE call1.r.tables,
     currentTableId |-> IF call2.op = "createTable" /\ Succeeded(seen, call2)
                        THEN call2.r.currentTableId
                        ELSE call1.r.currentTableId,
     user |-> s.user,
     logs |-> call2.r.logs,
     clock |-> call2.r.clock]

\* two updateCell calls on one cell in one render, both returning true, leave
\* two more history entries on it
RepeatedUpdateKeptAt(s, rowIndex, colIndex) ==
    \A first \in AnyValue, second \in AnyValue :
        LET call1 == Call("updateCell", updateCell(s, rowIndex, colIndex, first))
            seen == SameRender(s, call1)
            call2 == Call("updateCell", updateCell(seen, rowIndex, colIndex, second))
            next == Committed(s, call1, call2)
        IN  (call1.r.ret = "true" /\ call2.r.ret = "true") =>
                Len(HistoryAt(currentTable(next), rowIndex, colIndex))
                    = Len(HistoryAt(currentTable(s), rowIndex, colIndex)) + 2

\* two createTable calls in one render leave two more tables
BothTablesKept(s) ==
    LET call1 == Call("createTable", createTable(s, "T", <<"h", "h">>, 1))
        seen == SameRender(s, call1)
        call2 == Call("createTable", createTable(seen, "T", <<"h", "h">>, 1))
        next == Committed(s, call1, call2)
    IN  (Succeeded(s, call1) /\ Succeeded(seen, call2)) =>
            Len(next.tables) = Len(s.tables) + 2

\* addColumn and then an updateCell returning true, in one render, leave the
\* column and the value
ColumnAndValueKept(s, rowIndex, colIndex, value) ==
    LET call1 == Call("addColumn", addColumn(s, "h"))
        seen == SameRender(s, call1)
        call2 == Call("updateCell", updateCell(seen, rowIndex, colIndex, value))
        next == Committed(s, call1, call2)
    IN  (Succeeded(s, call1) /\ call2.r.ret = "true") =>
            /\ Len(currentTable(next).headers) = Len(currentTable(s).headers) + 1
            /\ CurrentCell(next, rowIndex, colIndex) # undefined
            /\ CurrentCell(next, rowIndex, colIndex).value = value

\* C23: no operation that reported success is lost, also when two are called
\* one after the other from one event handler, on the same rendered tables:
\* two updateCell calls that returned true on one cell leave two more history
\* entries, two createTable calls leave two more tables, and an addColumn
\* followed by an updateCell that returned true leaves both the new column
\* and the new value.
OperationsNeverLost ==
    /\ currentTable(State) # null =>
          \A rowIndex \in AnyRow, colIndex \in AnyCol :
              RepeatedUpdateKeptAt(State, rowIndex, colIndex)
    /\ BothTablesKept(State)
    /\ \A rowIndex \in AnyRow, colIndex \in AnyCol, value \in AnyValue :
          ColumnAndValueKept(State, rowIndex, colIndex, value)

\* what holds of it: two updateCell calls in one render on a cell of a row
\* that is there are both kept
RepeatedUpdateKeptOnRows ==
    currentTable(State) # null =>
        \A rowIndex \in 0 .. Len(currentTable(State).rows) - 1, colIndex \in AnyCol :
            RepeatedUpdateKeptAt(State, rowIndex, colIndex)

\* the first part alone: it fails past the last row
RepeatedUpdateKept ==
    currentTable(State) # null =>
        \A rowIndex \in AnyRow, colIndex \in AnyCol :
            RepeatedUpdateKeptAt(State, rowIndex, colIndex)

\* the second part alone
BothTablesAlwaysKept == BothTablesKept(State)

\* the third part alone
ColumnAndValueAlwaysKept ==
    \A rowIndex \in AnyRow, colIndex \in AnyCol, value \in AnyValue :
        ColumnAndValueKept(State, rowIndex, colIndex, value)

----------------------------------------------------------------------------
(* C24 *)

\* the state s with u signed in: login changes the user and nothing else
SignedIn(s, u) == [s EXCEPT !.user = u]

\* C24: right after a createTable by a signed-in user, every cell of column
\* c of the initial rows carries the record picked by c mod 3 (0: admin and
\* dp_team, editable, viewable; 1: admin, dp_team and qa_team, editable,
\* viewable; 2: admin and qa_team, not editable, viewable), so that on the
\* new table the viewer can view no cell, qa_team cannot view the columns
\* with c mod 3 = 0, dp_team cannot view those with c mod 3 = 2, and nobody
\* but admin can edit those with c mod 3 = 2.
SeededByColumn ==
    user # null =>
        \A headers \in AnyHeaders, initialRows \in AnyInitialRows :
            LET fresh == After(State, createTable(State, "T", headers, initialRows)) IN
            \A rowIndex \in 0 .. initialRows - 1, colIndex \in 0 .. Len(headers) - 1 :
                LET cell == CurrentCell(fresh, rowIndex, colIndex) IN
                /\ cell # undefined
                /\ colIndex % 3 = 0 =>
                      cell.permissions =
                          Present([roles |-> {"admin", "dp_team"},
                                   editable |-> TRUE, viewable |-> TRUE])
                /\ colIndex % 3 = 1 =>
                      cell.permissions =
                          Present([roles |-> {"admin", "dp_team", "qa_team"},
                                   editable |-> TRUE, viewable |-> TRUE])
                /\ colIndex % 3 = 2 =>
                      cell.permissions =
                          Present([roles |-> {"admin", "qa_team"},
                                   editable |-> FALSE, viewable |-> TRUE])
                /\ \A u \in mockUsers :
                      /\ u.role = "viewer" =>
                            ~canViewCell(SignedIn(fresh, u), rowIndex, colIndex)
                      /\ (u.role = "qa_team" /\ colIndex % 3 = 0) =>
                            ~canViewCell(SignedIn(fresh, u), rowIndex, colIndex)
                      /\ (u.role = "dp_team" /\ colIndex % 3 = 2) =>
                            ~canViewCell(SignedIn(fresh, u), rowIndex, colIndex)
                      /\ (u.role # "admin" /\ colIndex % 3 = 2) =>
                            ~canEditCell(SignedIn(fresh, u), rowIndex, colIndex)

\* C24 witness: the viewer created the table that is selected and nothing
\* was done to it since: the log ends with the viewer's (create, table)
\* entry, and the viewer can view neither cell of its row, while a table of
\* four columns created now would keep dp_team from viewing its column 2.
SeededByColumnWitness ==
    /\ user # null
    /\ user.role = "viewer"
    /\ logs # <<>>
    /\ logs[Len(logs)].actionType = "create"
    /\ logs[Len(logs)].resource = "table"
    /\ logs[Len(logs)].userId = user.id
    /\ currentTable(State) # null
    /\ ~canViewCell(State, 0, 0)
    /\ ~canViewCell(State, 0, 1)
    /\ \E u \in mockUsers :
          /\ u.role = "dp_team"
          /\ ~canViewCell(
                 SignedIn(After(State,
                                createTable(State, "T", <<"h", "h", "h", "h">>, 1)), u),
                 0, 2)

----------------------------------------------------------------------------
(* C25 *)

\* a cell, and one that has no permissions record
NoRecord(cell) == cell # undefined /\ cell.permissions = Absent

\* the cell at (rowIndex, colIndex) of the current table of s is there and
\* has no permissions record
WithoutRecord(s, rowIndex, colIndex) == NoRecord(CurrentCell(s, rowIndex, colIndex))

\* the cell at (rowIndex, colIndex) of the current table of s is there, has
\* no permissions record, can be viewed by every user and can be edited by
\* admin and dp_team and by nobody else
UnderDefaultPolicy(s, rowIndex, colIndex) ==
    /\ WithoutRecord(s, rowIndex, colIndex)
    /\ \A u \in mockUsers :
          /\ canViewCell(SignedIn(s, u), rowIndex, colIndex)
          /\ canEditCell(SignedIn(s, u), rowIndex, colIndex)
                 <=> u.role \in {"admin", "dp_team"}

\* every cell of the current table of s that has no permissions record is
\* under the default policy
RecordlessUnderDefaultPolicy(s) ==
    \A j \in 1 .. Len(currentTable(s).rows) :
        \A k \in DOMAIN currentTable(s).rows[j].items :
            WithoutRecord(s, j - 1, k) => UnderDefaultPolicy(s, j - 1, k)

\* the cells that addRow, addColumn and the row extension of updateCell
\* append in s have no permissions record right after the call, and those
\* of addRow, of addColumn and of an updateCell on the next row are under
\* the default policy there
AppendedUnderDefaultPolicy(s) ==
    LET ct == currentTable(s)
        afterRow == After(s, addRow(s))
        afterColumn == After(s, addColumn(s, "h"))
        onNextRow == updateCell(s, Len(ct.rows), 0, null)
    IN  /\ \A colIndex \in 0 .. Len(ct.headers) - 1 :
              /\ UnderDefaultPolicy(afterRow, Len(ct.rows), colIndex)
              /\ onNextRow.ret = "true" =>
                    UnderDefaultPolicy(After(s, onNextRow), Len(ct.rows), colIndex)
        /\ \A rowIndex \in 0 .. Len(ct.rows) - 1 :
              UnderDefaultPolicy(afterColumn, rowIndex, ct.rows[rowIndex + 1].length)
        /\ \A rowIndex \in RowsBeyond(ct), colIndex \in AnyCol, value \in AnyValue :
              LET r == updateCell(s, rowIndex, colIndex, value)
                  rows == currentTable(After(s, r)).rows
              IN  r.ret = "true" =>
                      \A pushed \in Len(ct.rows) .. rowIndex,
                         k \in 0 .. Len(ct.headers) - 1 :
                          NoRecord(CellAt(rows, pushed, k))

\* every cell of s under an index of its row that has no permissions record
\* is, after r, at its place and without one; but for the cells of `skip`
StaysWithoutRecord(s, r, skip) ==
    r.tables # s.tables =>
    \A i \in 1 .. Len(s.tables) :
        \A j \in 1 .. Len(s.tables[i].rows) :
            \A k \in DOMAIN s.tables[i].rows[j].items \cap Nat :
                LET cell == s.tables[i].rows[j].items[k]
                    cellAfter == CellAt(r.tables[i].rows, j - 1, k)
                IN  (/\ cell # undefined
                     /\ cell.permissions = Absent
                     /\ <<s.tables[i].id, j - 1, k>> \notin skip) =>
                        /\ cellAfter # undefined
                        /\ cellAfter.permissions = Absent

\* C25: the cells appended by addRow, by addColumn and by the row extension
\* of updateCell have no permissions record, whatever createTable seeded in
\* their column, so every signed-in role can view them and exactly admin and
\* dp_team can edit them; and a cell without a record stays without one under
\* every Table Store call but an admin's setCellPermissions on that cell.
AppendedCellsDefault ==
    (user # null /\ currentTable(State) # null) =>
        /\ AppendedUnderDefaultPolicy(State)
        /\ RecordlessUnderDefaultPolicy(State)
        /\ \A call \in TableStoreCallsBut(State, "setCellPermissions") :
              StaysWithoutRecord(State, call.r, {})
        /\ \A rowIndex \in AnyRow, colIndex \in AnyCol, permissions \in InputPermissions :
              StaysWithoutRecord(
                  State, setCellPermissions(State, rowIndex, colIndex, permissions),
                  IF user.role = "admin"
                  THEN {<<currentTableId, rowIndex, colIndex>>} ELSE {})

\* C25 witness: qa_team is signed in on a table to which a row was added
\* after creation: the seeded cell (0, 0) is closed to qa_team, while the
\* cell below it, (1, 0), has no record, can be viewed by qa_team and cannot
\* be edited by it.
AppendedCellsDefaultWitness ==
    /\ user # null
    /\ user.role = "qa_team"
    /\ currentTable(State) # null
    /\ Len(currentTable(State).rows) = 2
    /\ CurrentCell(State, 0, 0).permissions = Present(SeedPermissions(0))
    /\ ~canViewCell(State, 0, 0)
    /\ UnderDefaultPolicy(State, 1, 0)
    /\ canViewCell(State, 1, 0)
    /\ ~canEditCell(State, 1, 0)

----------------------------------------------------------------------------
(* C26 *)

\* the values a cell has held, oldest first: those of its history entries,
\* then the one it holds
ValueChain(cell) ==
    [n \in 1 .. Len(cell.history) |-> cell.history[n].value] \o <<cell.value>>

\* every cell of the tables started as null: with no history it holds null,
\* and with one its first entry records null
ChainsStartAtNull(tbls) ==
    \A i \in 1 .. Len(tbls) :
        \A j \in 1 .. Len(tbls[i].rows) :
            \A cell \in CellsOf(tbls[i].rows[j]) : ValueChain(cell)[1] = null

\* every cell of s outside `skip` that is still at its place after r has the
\* chain it had
KeepsChains(s, r, skip) ==
    r.tables # s.tables =>
    \A i \in 1 .. Len(s.tables) :
        \A j \in 1 .. Len(s.tables[i].rows) :
            \A k \in DOMAIN s.tables[i].rows[j].items :
                LET cell == s.tables[i].rows[j].items[k]
                    cellAfter == CellAt(r.tables[i].rows, j - 1, k)
                IN  (/\ cell # undefined
                     /\ cellAfter # undefined
                     /\ <<s.tables[i].id, j - 1, k>> \notin skip)
                        => ValueChain(cellAfter) = ValueChain(cell)

\* an updateCell that returns true puts its value at the end of the target
\* cell's chain (a new cell's chain being <<null>>), and whatever it returns
\* it leaves the chains of the other cells as they were
UpdateExtendsChain(s) ==
    \A rowIndex \in AnyRow, colIndex \in AnyCol, value \in AnyValue :
        LET cell == CurrentCell(s, rowIndex, colIndex)
            before == IF cell = undefined THEN EmptyCell ELSE cell
            r == updateCell(s, rowIndex, colIndex, value)
            cellAfter == CurrentCell(After(s, r), rowIndex, colIndex)
        IN  /\ r.ret = "true" =>
                   /\ cellAfter # undefined
                   /\ ValueChain(cellAfter) = Append(ValueChain(before), value)
            /\ KeepsChains(s, r, {<<s.currentTableId, rowIndex, colIndex>>})

\* C26: in every reachable state every cell with an empty history holds null
\* and every other cell has null in its first history entry; each updateCell
\* that returns true adds the value it writes to the end of the cell's chain
\* of values (the history values followed by the current value) and leaves
\* the chains of the other cells alone, and no other operation changes the
\* chain of a cell: the chain is the sequence of values the cell has held.
CellValueChain ==
    /\ ChainsStartAtNull(tables)
    /\ UpdateExtendsChain(State)
    /\ \A call \in TableStoreCallsBut(State, "updateCell") :
          KeepsChains(State, call.r, {})

\* C26 witness: cell (0, 0) of the current table was written once: it holds
\* 'a' after null, and writing null to it now would make its chain
\* null, 'a', null.
CellValueChainWitness ==
    /\ user # null
    /\ CurrentCell(State, 0, 0) # undefined
    /\ ValueChain(CurrentCell(State, 0, 0)) = <<null, StringValue(<<"a">>)>>
    /\ updateCell(State, 0, 0, null).ret = "true"
    /\ ValueChain(CurrentCell(After(State, updateCell(State, 0, 0, null)), 0, 0))
           = <<null, StringValue(<<"a">>), null>>

----------------------------------------------------------------------------
(* C27 *)

\* the confirmation record of a cell
Stamps(cell) == <<cell.confirmedBy, cell.confirmedAt, cell.confirmedComments>>

\* every confirmed cell of s that is at its place after r has the
\* confirmation record it had
KeepsStamps(s, r) ==
    \A i \in 1 .. Len(s.tables) :
        \A j \in 1 .. Len(s.tables[i].rows) :
            \A k \in DOMAIN s.tables[i].rows[j].items :
                LET cell == s.tables[i].rows[j].items[k]
                    cellAfter == CellAt(r.tables[i].rows, j - 1, k)
                IN  (isConfirmed(cell) /\ cellAfter # undefined)
                        => Stamps(cellAfter) = Stamps(cell)

\* C27: a confirmed cell keeps the confirmedBy, confirmedAt and
\* confirmedComments of its first confirmation under every Table Store call,
\* a further confirmCell on it by the same or by another user included.
ConfirmationRecordImmutable ==
    \A call \in TableStoreCalls(State) : KeepsStamps(State, call.r)

\* what holds of it: every operation but confirmCell keeps the record
OthersKeepStamps ==
    \A call \in TableStoreCalls(State) :
        call.op # "confirmCell" => KeepsStamps(State, call.r)

----------------------------------------------------------------------------
(* C28 *)

\* the entries of the log after r that the log of s did not hold and that
\* state a confirmation: of a cell (the store's and the grid's pair) or of
\* the table
NewEntriesStating(s, r, pairs) ==
    {n \in Len(s.logs) + 1 .. Len(r.logs) :
        <<r.logs[n].actionType, r.logs[n].resource>> \in pairs}

CellConfirmedPairs == {<<"confirm", "cell">>, <<"update", "spreadsheet">>}
TableConfirmedPairs == {<<"confirm", "table">>, <<"confirm", "spreadsheet">>}

\* the user of s holds 'confirm_data' and the call with result r set the
\* confirmed flag of the cell at (rowIndex, colIndex) in that user's name
CellConfirmedBy(s, r, rowIndex, colIndex) ==
    /\ "confirm_data" \in s.user.permissions
    /\ r.toast # "no permission to confirm"
    /\ CurrentCell(After(s, r), rowIndex, colIndex) # undefined
    /\ CurrentCell(After(s, r), rowIndex, colIndex).confirmed
    /\ CurrentCell(After(s, r), rowIndex, colIndex).confirmedBy = Present(s.user.id)

\* the same for the current table
TableConfirmedBy(s, r) ==
    /\ "confirm_data" \in s.user.permissions
    /\ currentTable(After(s, r)) # null
    /\ currentTable(After(s, r)).confirmed
    /\ currentTable(After(s, r)).confirmedBy = Present(s.user.id)
    /\ currentTable(After(s, r)).version = currentTable(s).version + 1

\* the store's own entries are truthful: confirmCell and confirmTable log a
\* confirmation only when they made one
StoreEntriesTruthful ==
    user # null =>
        /\ \A rowIndex \in AnyRow, colIndex \in AnyCol, comments \in AnyComments :
              LET r == confirmCell(State, rowIndex, colIndex, comments) IN
              NewEntriesStating(State, r, CellConfirmedPairs) # {}
                  => CellConfirmedBy(State, r, rowIndex, colIndex)
        /\ \A comments \in AnyComments :
              LET r == confirmTable(State, comments) IN
              NewEntriesStating(State, r, TableConfirmedPairs) # {}
                  => TableConfirmedBy(State, r)

\* the grid's entries are: wherever the grid offers the handler, an entry it
\* leaves about a confirmation goes with a confirmation made
GridEntriesTruthful ==
    user # null =>
        /\ \A rowIndex \in AnyRow, colIndex \in AnyCol :
              LET r == handleConfirmCell(State, rowIndex, colIndex) IN
              (/\ confirmItemShown(State, rowIndex, colIndex)
               /\ NewEntriesStating(State, r, CellConfirmedPairs) # {})
                  => CellConfirmedBy(State, r, rowIndex, colIndex)
        /\ LET r == handleConfirmTable(State) IN
           (/\ confirmButtonEnabled(State)
            /\ NewEntriesStating(State, r, TableConfirmedPairs) # {})
               => TableConfirmedBy(State, r)

\* C28: an audit entry saying that a cell or the table was confirmed,
\* whether the store appends it or the grid's handleConfirmCell and
\* handleConfirmTable do, is appended only by a call in which the acting
\* user held 'confirm_data' and the confirmed flag of that cell or table was
\* set.
ConfirmationEntriesTruthful == StoreEntriesTruthful /\ GridEntriesTruthful

\* the part of the grid that is about the table alone
TableEntriesTruthful ==
    (user # null /\ confirmButtonEnabled(State)) =>
        LET r == handleConfirmTable(State) IN
        NewEntriesStating(State, r, TableConfirmedPairs) # {}
            => TableConfirmedBy(State, r)

----------------------------------------------------------------------------
(* C29 *)

\* after the admin of s saves the boxes for the cell at (rowIndex, colIndex):
\* a user of each other role of the dialog can edit the cell iff the role's
\* 'Can Edit' box was ticked and view it iff its 'Can View' box was, and the
\* dialog opens again on that cell with the boxes as saved
DialogFaithfulAt(s, rowIndex, colIndex, rolePermissions) ==
    LET saved == After(s, handleSavePermissions(s, rowIndex, colIndex, rolePermissions)) IN
    /\ \A u \in mockUsers :
          u.role \in DialogRoles \ {"admin"} =>
              /\ canEditCell(SignedIn(saved, u), rowIndex, colIndex)
                     <=> rolePermissions[u.role].editable
              /\ canViewCell(SignedIn(saved, u), rowIndex, colIndex)
                     <=> rolePermissions[u.role].viewable
    /\ openCellPermissions(saved, rowIndex, colIndex) = rolePermissions

\* C29: after an admin saves the checkboxes of the Cell Permissions dialog
\* for a cell, dp_team and qa_team can each edit the cell iff their 'Can
\* Edit' box was ticked and view it iff their 'Can View' box was, and the
\* dialog reopened on the cell shows the boxes as they were saved.
PermissionsDialogFaithful ==
    \A rowIndex \in AnyRow, colIndex \in AnyCol :
        permissionsItemShown(State, rowIndex, colIndex) =>
            \A rolePermissions \in RolePermissions :
                DialogFaithfulAt(State, rowIndex, colIndex, rolePermissions)

\* the roles with a box ticked all have the same boxes ticked
UniformBoxes(rolePermissions) ==
    \A role \in DialogRoles, other \in DialogRoles :
        (/\ rolePermissions[role].viewable \/ rolePermissions[role].editable
         /\ rolePermissions[other].viewable \/ rolePermissions[other].editable)
            => rolePermissions[role] = rolePermissions[other]

\* what holds of it: the dialog is faithful when the ticked roles agree
DialogFaithfulForUniformBoxes ==
    \A rowIndex \in AnyRow, colIndex \in AnyCol :
        permissionsItemShown(State, rowIndex, colIndex) =>
            \A rolePermissions \in RolePermissions :
                UniformBoxes(rolePermissions) =>
                    DialogFaithfulAt(State, rowIndex, colIndex, rolePermissions)

----------------------------------------------------------------------------
(* C30 *)

\* s with the value of the current table's cell at (rowIndex, colIndex)
\* replaced, and nothing else
WithValue(s, rowIndex, colIndex, value) ==
    LET rows == currentTable(s).rows
        cell == CellAt(rows, rowIndex, colIndex)
        row  == Put(RowAt(rows, rowIndex), colIndex, [cell EXCEPT !.value = value])
    IN  [s EXCEPT !.tables =
            MapCurrent(s, [currentTable(s) EXCEPT
                              !.rows = SetRow(rows, rowIndex, row)])]

\* a cell of the grid that the user of s may not view
HiddenCell(s, rowIndex, colIndex) ==
    /\ s.user # null
    /\ currentTable(s) # null
    /\ rowIndex \in 0 .. Len(currentTable(s).rows) - 1
    /\ colIndex \in 0 .. RowAt(currentTable(s).rows, rowIndex).length - 1
    /\ CellAt(currentTable(s).rows, rowIndex, colIndex) # undefined
    /\ ~canViewCell(s, rowIndex, colIndex)

\* the three CSV texts a user can get of the current table of s
CsvTexts(s) ==
    <<handleExportCSV(s, s.currentTableId, TRUE).ret,
      handleExportCSV(s, s.currentTableId, FALSE).ret,
      handleExportToCSV(s).ret>>

\* C30: the CSV text a user exports does not depend on the value of a cell
\* the user may not view: with any other value in such a cell, the export
\* page and the grid produce the same text.
ExportRespectsView ==
    \A rowIndex \in AnyRow, colIndex \in AnyCol :
        HiddenCell(State, rowIndex, colIndex) =>
            \A value \in AnyValue :
                CsvTexts(WithValue(State, rowIndex, colIndex, value)) = CsvTexts(State)

\* the case in the program itself: a value another user wrote into a cell
\* that the signed-in user may not view
HiddenValueHeld ==
    \E rowIndex \in AnyRow, colIndex \in AnyCol :
        /\ HiddenCell(State, rowIndex, colIndex)
        /\ CellAt(currentTable(State).rows, rowIndex, colIndex).value # null

====
